---- MODULE Spec2Model ----
(***************************************************************************)
(* A model of tstest/natlab/vnet: the virtual router of each network, the  *)
(* link registry (writeFunc), the NAT translation entry points, the WAN    *)
(* switch and the agent registry.                                          *)
(*                                                                         *)
(* Three specifications share the variables:                               *)
(*   Spec      guest transports, frame handling, NAT and WAN routing, one  *)
(*             handler call per step (a reader goroutine handles a frame   *)
(*             completely before it reads the next one);                   *)
(*   SpecNAT   goroutines calling doNATOut / doNATIn / InitNAT on one      *)
(*             network, one step per lock operation, with a clock;         *)
(*   SpecAgent addIdleAgentConn and takeAgentConn, one step per critical   *)
(*             section of Server.mu; LiveAgent adds the scheduler's        *)
(*             fairness.                                                   *)
(***************************************************************************)
EXTENDS Integers, Sequences, FiniteSets, TLC

(***************************************************************************)
(* Bounds of the model.                                                    *)
(***************************************************************************)
\* number of ports of the ephemeral range the NAT tables allocate from
PoolSize == 2
\* largest value of the clock in SpecNAT
MaxTime == 3
\* agent connections accepted in one run of SpecAgent
MaxAgentConns == 2
\* NAT table replacements in one run of SpecNAT
MaxEpoch == 2
\* InitNAT calls that get to replace the table in one run of SpecInitNAT
MaxInits == 2
\* idle time, in clock ticks, after which a NAT mapping has expired
IdleWindow == 1
\* packets the TCP stack of a network holds for its reader before it drops
MaxStackQueue == 1

\* frames read from one guest transport in SpecOrder
MaxFrames == 2

\* values the recorder sends on the error channel of one session
MaxSends == 2

(***************************************************************************)
(* Addresses.                                                              *)
(***************************************************************************)
\* a nil *node, *network or channel
Nil == 0

\* MAC.IsBroadcast
BroadcastMAC == <<255, 255, 255, 255, 255, 255>>

IsBroadcast(m) == m = BroadcastMAC

\* a MAC no Config hands out
UnknownMAC == <<2, 0, 0, 0, 0, 9>>

\* the zero netip.Addr
NoIP == <<>>

IPv4Unspecified == <<0, 0, 0, 0>>

fakeDNSIP == <<4, 11, 4, 11>>

fakeControlplaneIP == <<52, 52, 0, 1>>

fakeTestAgentIP == <<52, 52, 0, 2>>

stunPort == 3478

AddrPortFrom(ip, port) == [addr |-> ip, port |-> port]

\* the zero netip.AddrPort
NoAddrPort == AddrPortFrom(NoIP, 0)

IsValid(ap) == ap.addr # NoIP

(***************************************************************************)
(* The Config the server is built from: AddNetwork("2.1.1.1",              *)
(* "192.168.1.1/24", EasyNAT), AddNetwork("2.2.2.2", "10.2.0.1/16",        *)
(* HardNAT), and three AddNode calls (two on the first network, one on the *)
(* second).                                                                *)
(***************************************************************************)
EasyNAT == "easy"

HardNAT == "hard"

ConfNetworks ==
  << [wanIP |-> <<2, 1, 1, 1>>, lanIP |-> <<192, 168, 1, 1>>, bits |-> 24, natType |-> EasyNAT],
     [wanIP |-> <<2, 2, 2, 2>>, lanIP |-> <<10, 2, 0, 1>>, bits |-> 16, natType |-> HardNAT] >>

\* per node, the networks given to AddNode (1-based indexes into ConfNetworks)
ConfNodes == << <<1>>, <<1>>, <<2>> >>

Nets == 1..Len(ConfNetworks)

Nodes == 1..Len(ConfNodes)

\* Config.AddNode: mac = 52:cc:cc:cc:cc:byte(num), num the 0-based index
NodeMAC(i) == <<82, 204, 204, 204, 204, (i - 1) % 256>>

\* Config.AddNetwork: mac = 52:ee:ee:ee:ee:byte(num)
NetMAC(n) == <<82, 238, 238, 238, 238, (n - 1) % 256>>

\* Node.Network: the first network of the node
NodeNet(i) == ConfNodes[i][1]

NetWANIP(n) == ConfNetworks[n].wanIP

\* network.lanIP.Addr(): the router's own address
NetLANIP(n) == ConfNetworks[n].lanIP

\* initFromConfig: ip4 := n.net.lanIP.Addr().As4(); ip4[3] = 101 + n.mac[5]
NodeLANIP(i) ==
  LET ip4 == NetLANIP(NodeNet(i))
  IN  <<ip4[1], ip4[2], ip4[3], (101 + NodeMAC(i)[6]) % 256>>

\* Server.nodeByMAC: the node of a MAC, Nil when there is none
nodeByMAC(mac) ==
  IF \E i \in Nodes : NodeMAC(i) = mac
  THEN CHOOSE i \in Nodes : NodeMAC(i) = mac
  ELSE Nil

\* network.nodesByIP: the node of a LAN IP on network n, Nil when there is none
nodesByIP(n, ip) ==
  IF \E i \in Nodes : NodeNet(i) = n /\ NodeLANIP(i) = ip
  THEN CHOOSE i \in Nodes : NodeNet(i) = n /\ NodeLANIP(i) = ip
  ELSE Nil

\* Server.networkByWAN
networkByWAN(ip) ==
  IF \E n \in Nets : NetWANIP(n) = ip
  THEN CHOOSE n \in Nets : NetWANIP(n) = ip
  ELSE Nil

MACOfIPRouterOnly(n, ip) ==
  IF NetLANIP(n) = ip \/ nodesByIP(n, ip) # Nil THEN NetMAC(n) ELSE NoIP

\* network.MACOfIP: the router's MAC for the router's IP, else the node's
MACOfIP(n, ip) ==
  IF NetLANIP(n) = ip THEN NetMAC(n)
  ELSE IF nodesByIP(n, ip) # Nil THEN NodeMAC(nodesByIP(n, ip))
  ELSE NoIP

(***************************************************************************)
(* NAT tables.  A table is [type, out]; out is the set of its mappings     *)
(* [src, dst, port, at]: LAN source, WAN peer (NoAddrPort in an easy       *)
(* table, whose mappings do not depend on the peer), allocated WAN port    *)
(* and time of last outbound use.                                          *)
(***************************************************************************)
\* first port of the ephemeral range
PortBase == 32768

Pool == PortBase..(PortBase + PoolSize - 1)

natTypes == {EasyNAT, HardNAT}

\* the constructor of a NAT type: an empty table
newNATTable(natType) == [type |-> natType, out |-> {}]

\* the mappings of t that have not been idle for longer than IdleWindow
Live(t, at) == {m \in t.out : at - m.at <= IdleWindow}

\* the mappings of t that serve the flow src -> dst
Matching(t, src, dst, at) ==
  {m \in Live(t, at) : m.src = src /\ (t.type = EasyNAT \/ m.dst = dst)}

\* NATTable.PickOutgoingSrc on network n: the possible (table, WAN source)
\* outcomes.  A live mapping of the flow is reused and its idle time
\* restarts; otherwise any port no live mapping uses is allocated.
PickOutgoingSrc(n, t, src, dst, at) ==
  LET live == Live(t, at)
      hit  == Matching(t, src, dst, at)
      free == Pool \ {m.port : m \in live}
      key  == IF t.type = EasyNAT THEN NoAddrPort ELSE dst
  IN  IF hit # {}
      THEN LET m == CHOOSE m \in hit : TRUE
           IN  {[tbl |-> [t EXCEPT !.out = (live \ {m}) \cup {[m EXCEPT !.at = at]}],
                 res |-> AddrPortFrom(NetWANIP(n), m.port)]}
      ELSE IF free = {}
      THEN {[tbl |-> [t EXCEPT !.out = live], res |-> NoAddrPort]}
      ELSE {[tbl |-> [t EXCEPT !.out = live \cup
                          {[src |-> src, dst |-> key, port |-> p, at |-> at]}],
             res |-> AddrPortFrom(NetWANIP(n), p)] : p \in free}

\* NATTable.PickIncomingDst on network n: the LAN destination of a packet
\* from WAN src to WAN dst, NoAddrPort to drop it.  An easy table maps by
\* the WAN port alone, a hard table by the port and the peer.
PickIncomingDst(n, t, src, dst, at) ==
  LET hit == {m \in Live(t, at) :
                m.port = dst.port /\ (t.type = EasyNAT \/ m.dst = src)}
  IN  [tbl |-> t,
       res |-> IF dst.addr = NetWANIP(n) /\ hit # {}
               THEN (CHOOSE m \in hit : TRUE).src ELSE NoAddrPort]

(***************************************************************************)
(* Frames and packets.  An Ethernet frame is a record; an ARP frame keeps  *)
(* its operation in proto and its sender and target protocol addresses in  *)
(* ipsrc and ipdst.  A payload is [kind, data].                            *)
(***************************************************************************)
Frame(dst, src, etype, ipsrc, ipdst, proto, sport, dport, payload) ==
  [dst |-> dst, src |-> src, etype |-> etype, ipsrc |-> ipsrc, ipdst |-> ipdst,
   proto |-> proto, sport |-> sport, dport |-> dport, payload |-> payload]

Payload(kind, data) == [kind |-> kind, data |-> data]

NoPayload == Payload("none", <<>>)

\* a nil []byte where a frame is expected
NoFrame == Frame(NoIP, NoIP, "none", NoIP, NoIP, "none", 0, 0, NoPayload)

\* UDPPacket
UDPPacket(src, dst, payload) == [src |-> src, dst |-> dst, payload |-> payload]

\* one call of a writer callback: the transport written to, the registry
\* key it was found under, and the frame
Write(c, mac, frame) == [conn |-> c, mac |-> mac, frame |-> frame]

RECURSIVE SetToSeq(_)
\* the elements of a finite set in some fixed order
SetToSeq(S) ==
  IF S = {} THEN <<>>
  ELSE LET x == CHOOSE x \in S : TRUE IN <<x>> \o SetToSeq(S \ {x})

(***************************************************************************)
(* State.                                                                  *)
(***************************************************************************)
VARIABLES
  conn,         \* per guest transport: ServeUnixConn's state, proto, srcNode
  writeFunc,    \* per network: network.writeFunc, MAC -> transport
  natTable,     \* per network: network.natTable
  natStyle,     \* per network: network.natStyle
  now,          \* the clock time.Now reads
  stackOut,     \* per network: destination IPs of the packets the TCP stack
                \* has queued on linkEP for the reader goroutine
  fatal,        \* the process has panicked or exited
  registered,   \* per transport: the MACs it has registered a writer for
  lastHandled,  \* the frame the last step read: its transport and source
                \* MAC, whether it reached HandleEthernetPacket, and if so
                \* the frame; err is the transport whose read failed in the
                \* last step
  lastWrites,   \* the writer calls of the last step, in order
  lastWAN,      \* the packets the last step handed to routeUDPPacket
  werr,         \* the transports whose bufio.Writer has failed a write
  natMu,        \* per network: the goroutine holding network.natMu, or Nil
  natEpoch,     \* per network: how many tables have been installed
  thr,          \* per goroutine of SpecNAT: its call and its place in it
  lastOut,      \* the last doNATOut call for the watched flow: its result,
                \* time and table; whether the call before it for that flow
                \* was within the idle window on the same table, and if so
                \* that call's result
  agentConns,   \* Server.agentConns
  agentConnWaiter, \* Server.agentConnWaiter: node -> waiter channel
  call,         \* per takeAgentConn call: its node, place, context, result
  added,        \* the node of every agent connection accepted so far, in order
  conf,         \* the Config handed to New
  srv,          \* what New made of conf: its outcome and the runtime nodes
  hand,         \* per transport: the HandleEthernetPacket calls that have not
                \* returned, each with its frame's number and the writer
                \* calls it has still to make
  sent,         \* per transport: how many frames have been read from it
  rcvd,         \* per transport: the frames its writer was called with, each
                \* as <<transport it was read from, number>>, in call order
  hijacker,     \* per session: the Hijacker's failOpen, the place of its
                \* Hijack call and how connectToRecorder ended
  reqConn,      \* per session: the connection ResponseWriter.Hijack returned:
                \* its state, the status of the response written to it and
                \* whether that write succeeded
  lc,           \* per session: the recording connection spdy.New made: whether
                \* it exists, is failed, is closed, and whether the goroutine
                \* of setUpRecording has called its Close
  ret,          \* per session: what Hijack returned
  errChan,      \* per session: the values the recorder has sent on the error
                \* channel and that are not yet received, and how many it sent
  gor,          \* per session: the place of setUpRecording's goroutine and
                \* the value it received
  uploaded,     \* counterSessionRecordingsUploaded
  lastAccept    \* the last acceptTCP call: its request, whether CreateEndpoint
                \* and net.Dial succeeded, and how it was settled; tick
                \* alternates with every call

linkVars ==
  <<conn, writeFunc, stackOut, registered, lastHandled, lastWrites, lastWAN, werr>>

natVars == <<natTable, natStyle, now>>

natThreadVars == <<natMu, natEpoch, thr, lastOut>>

agentVars == <<agentConns, agentConnWaiter, call, added>>

confVars == <<conf, srv>>

orderVars == <<hand, sent, rcvd>>

hijVars == <<hijacker, reqConn, lc, ret, errChan, gor, uploaded>>

vars ==
  <<linkVars, natVars, natThreadVars, agentVars, confVars, orderVars, hijVars, lastAccept,
    fatal>>

Conns == {1, 2}

QEMU == "QEMU"

UnixDGRAM == "DGRAM"

\* the framing each transport is served with: ServeUnixConn's proto
ProtoOf(c) == IF c = 1 THEN QEMU ELSE UnixDGRAM

\* lastHandled when the last step read no frame
NoHandled == [conn |-> Nil, src |-> NoIP, handled |-> FALSE, frame |-> NoFrame, err |-> Nil]

(***************************************************************************)
(* Link registry.                                                          *)
(***************************************************************************)
registerWriterNoDelete(wf, mac, c) ==
  IF c # Nil THEN [m \in DOMAIN wf \cup {mac} |-> IF m = mac THEN c ELSE wf[m]] ELSE wf

\* network.registerWriter(mac, f) for the writer of transport c; c = Nil is
\* the nil func, which deletes the entry
registerWriter(wf, mac, c) ==
  IF c # Nil
  THEN [m \in DOMAIN wf \cup {mac} |-> IF m = mac THEN c ELSE wf[m]]
  ELSE [m \in DOMAIN wf \ {mac} |-> wf[m]]

writeEthNoSelfCheck(wf, res) ==
  IF res = NoFrame THEN <<>>
  ELSE IF IsBroadcast(res.dst)
  THEN [k \in 1..Len(SetToSeq(DOMAIN wf)) |->
          Write(wf[SetToSeq(DOMAIN wf)[k]], SetToSeq(DOMAIN wf)[k], res)]
  ELSE IF res.dst \in DOMAIN wf THEN <<Write(wf[res.dst], res.dst, res)>>
  ELSE <<>>

writeEthFlood(wf, res) ==
  IF res = NoFrame THEN <<>>
  ELSE IF IsBroadcast(res.dst) \/ (res.dst \notin DOMAIN wf /\ res.src # res.dst)
  THEN [k \in 1..Len(SetToSeq(DOMAIN wf)) |->
          Write(wf[SetToSeq(DOMAIN wf)[k]], SetToSeq(DOMAIN wf)[k], res)]
  ELSE IF res.src = res.dst THEN <<>>
  ELSE <<Write(wf[res.dst], res.dst, res)>>

\* network.writeEth(res) against the registry wf: the writer calls it makes.
\* A nil or short frame is dropped; a broadcast goes to every registered
\* writer; a frame to its own source is dropped; else the destination's
\* writer, if any, is called.
writeEth(wf, res) ==
  IF res = NoFrame THEN <<>>
  ELSE IF IsBroadcast(res.dst)
  THEN [k \in 1..Len(SetToSeq(DOMAIN wf)) |->
          Write(wf[SetToSeq(DOMAIN wf)[k]], SetToSeq(DOMAIN wf)[k], res)]
  ELSE IF res.src = res.dst THEN <<>>
  ELSE IF res.dst \in DOMAIN wf THEN <<Write(wf[res.dst], res.dst, res)>>
  ELSE <<>>

(***************************************************************************)
(* NAT entry points and the WAN switch, as one handler runs them: each     *)
(* takes the NAT tables nat and the registries wf it starts from and       *)
(* yields the tables it leaves and the writer calls it makes.              *)
(***************************************************************************)
doNATOutNoTable(n, nat, src, dst) ==
  {[nat |-> nat, res |-> o.res] :
     o \in PickOutgoingSrc(n, newNATTable(nat[n].type), src, dst, now)}

doNATOutLanSrc(n, nat, src, dst) == {[nat |-> nat, res |-> src]}

\* network.doNATOut: natMu.Lock; natTable.PickOutgoingSrc(src, dst, time.Now())
doNATOut(n, nat, src, dst) ==
  {[nat |-> [nat EXCEPT ![n] = o.tbl], res |-> o.res] :
     o \in PickOutgoingSrc(n, nat[n], src, dst, now)}

\* network.doNATIn: natMu.Lock; natTable.PickIncomingDst(src, dst, time.Now())
doNATIn(n, nat, src, dst) ==
  LET o == PickIncomingDst(n, nat[n], src, dst, now)
  IN  [nat |-> [nat EXCEPT ![n] = o.tbl], res |-> o.res]

WriteUDPPacketNoNATBroadcast(n, wf, p) ==
  LET node == nodesByIP(n, p.dst.addr)
  IN  IF node = Nil \/ ~IsValid(p.src) THEN <<>>
      ELSE writeEth(wf[n], Frame(BroadcastMAC, NetMAC(n), "IPv4", p.src.addr,
                                 p.dst.addr, "udp", p.src.port, p.dst.port, p.payload))

\* network.WriteUDPPacketNoNAT: no node for the destination IP, or a packet
\* that does not serialize (no source IP), writes nothing
WriteUDPPacketNoNAT(n, wf, p) ==
  LET node == nodesByIP(n, p.dst.addr)
  IN  IF node = Nil \/ ~IsValid(p.src) THEN <<>>
      ELSE writeEth(wf[n], Frame(NodeMAC(node), NetMAC(n), "IPv4", p.src.addr,
                                 p.dst.addr, "udp", p.src.port, p.dst.port, p.payload))

HandleUDPPacketNoFilter(n, nat, wf, p) ==
  LET r == doNATIn(n, nat, p.src, p.dst)
  IN  [nat |-> r.nat,
       writes |-> WriteUDPPacketNoNAT(n, wf,
                    [p EXCEPT !.dst = IF IsValid(r.res) THEN r.res
                                      ELSE AddrPortFrom(NodeLANIP(CHOOSE i \in Nodes : NodeNet(i) = n), p.dst.port)])]

\* network.HandleUDPPacket
HandleUDPPacket(n, nat, wf, p) ==
  LET r == doNATIn(n, nat, p.src, p.dst)
  IN  [nat |-> r.nat,
       writes |-> IF ~IsValid(r.res) THEN <<>>
                  ELSE WriteUDPPacketNoNAT(n, wf, [p EXCEPT !.dst = r.res])]

\* stun.ParseBindingRequest succeeds
IsSTUNRequest(p) == p.payload.kind = "stunReq"

makeSTUNReplyMappedDst(req) ==
  UDPPacket(req.dst, req.src,
            Payload("stunResp", req.payload.data \o req.dst.addr \o <<req.dst.port>>))

\* makeSTUNReply: the reply goes back from the address the request was sent
\* to and carries the request's source as its mapped address
makeSTUNReply(req) ==
  UDPPacket(req.dst, req.src,
            Payload("stunResp", req.payload.data \o req.src.addr \o <<req.src.port>>))

routeUDPPacketDefaultNet(nat, wf, up) ==
  IF up.dst.port = stunPort
  THEN IF IsSTUNRequest(up) /\ networkByWAN(up.src.addr) # Nil
       THEN HandleUDPPacket(networkByWAN(up.src.addr), nat, wf, makeSTUNReply(up))
       ELSE [nat |-> nat, writes |-> <<>>]
  ELSE IF networkByWAN(up.dst.addr) = Nil
  THEN [nat |-> nat,
        writes |-> WriteUDPPacketNoNAT(1, wf, [up EXCEPT !.dst.addr = NodeLANIP(1)])]
  ELSE HandleUDPPacket(networkByWAN(up.dst.addr), nat, wf, up)

RECURSIVE routeUDPPacket(_, _, _)
\* Server.routeUDPPacket
routeUDPPacket(nat, wf, up) ==
  IF up.dst.port = stunPort
  THEN IF IsSTUNRequest(up) THEN routeUDPPacket(nat, wf, makeSTUNReply(up))
       ELSE [nat |-> nat, writes |-> <<>>]
  ELSE IF networkByWAN(up.dst.addr) = Nil THEN [nat |-> nat, writes |-> <<>>]
  ELSE HandleUDPPacket(networkByWAN(up.dst.addr), nat, wf, up)

(***************************************************************************)
(* The router's replies.                                                   *)
(***************************************************************************)
DHCPDiscover == 1

DHCPOffer == 2

DHCPRequest == 3

DHCPAck == 5

\* net.CIDRMask(bits, 32)
CIDRMask(bits) ==
  [k \in 1..4 |-> IF bits >= 8 * k THEN 255
                  ELSE IF bits <= 8 * (k - 1) THEN 0
                  ELSE 256 - 2 ^ (8 * k - bits)]

DHCPReplyOfferOnly(lanIP, lan, mac, ep) ==
  Frame(ep.src, mac, "IPv4", ep.ipdst, ep.ipsrc, "udp", ep.dport, ep.sport,
        Payload("dhcpReply", <<DHCPOffer>> \o lanIP \o lan.addr))

\* createDHCPResponse for a node with LAN IP lanIP on a network with LAN
\* prefix lan and router MAC mac.  The reply's payload is <<message type>>,
\* YourClientIP, server ID and, in an Ack, lease time, router, DNS, mask;
\* gwIP is node.net.lanIP.Addr(), the address the prefix was written with.
DHCPReply(lanIP, lan, mac, ep) ==
  LET gwIP == lan.addr
      msgType == IF ep.payload.data = <<>> THEN 0 ELSE ep.payload.data[1]
      head == lanIP \o gwIP
      data == IF msgType = DHCPDiscover THEN <<DHCPOffer>> \o head
              ELSE IF msgType = DHCPRequest
              THEN <<DHCPAck>> \o head \o <<3600>> \o gwIP \o fakeDNSIP
                   \o CIDRMask(lan.bits)
              ELSE <<0>> \o head
  IN  Frame(ep.src, mac, "IPv4", ep.ipdst, ep.ipsrc, "udp", ep.dport, ep.sport,
            Payload("dhcpReply", data))

\* Server.createDHCPResponse: nil for a source MAC that is no node's
createDHCPResponse(ep) ==
  LET node == nodeByMAC(ep.src)
  IN  IF node = Nil THEN NoFrame
      ELSE DHCPReply(NodeLANIP(node),
                     [addr |-> NetLANIP(NodeNet(node)),
                      bits |-> ConfNetworks[NodeNet(node)].bits],
                     NetMAC(NodeNet(node)), ep)

isDHCPRequest(ep) == ep.proto = "udp" /\ ep.dport = 67 /\ ep.sport = 68

isIGMP(ep) == ep.proto = "igmp"

isMDNSQuery(ep) == ep.proto = "udp" /\ ep.sport = 5353 /\ ep.dport = 5353

isDNSRequest(ep) ==
  ep.proto = "udp" /\ ep.dport = 53 /\ ep.ipdst = fakeDNSIP /\ ep.payload.kind = "dnsQuery"

isNATPMP(ep) ==
  ep.proto = "udp" /\ ep.dport = 5351 /\ Len(ep.payload.data) > 0 /\ ep.payload.data[1] = 0

\* the question names of the queries guests send: 1 is
\* controlplane.tailscale.com, 2 is a name ending in .pool.ntp.org, 3 is a
\* name IPv4ForDNS does not know, 4 is dns, 5 is test-driver.tailscale
DNSControlplane == 1

DNSPoolNTP == 2

DNSOther == 3

DNSDns == 4

DNSTestDriver == 5

\* layers.DNSTypeA, layers.DNSTypeAAAA, layers.DNSClassIN, layers.DNSClassCH
DNSTypeA == 1

DNSTypeAAAA == 28

DNSClassIN == 1

DNSClassCH == 3

\* a question is <<name, type, class>>; the data of a query is its ID followed
\* by its questions, the data of a response is ID, QDCount, ANCount, the
\* questions, and per answer <<name, type, class>>, the IP and the TTL
Question(name, type, class) == <<name, type, class>>

RECURSIVE Flatten(_)
Flatten(ss) == IF ss = <<>> THEN <<>> ELSE Head(ss) \o Flatten(Tail(ss))

DNSQuery(id, qs) == Payload("dnsQuery", <<id>> \o Flatten(qs))

\* dnsLayer.Questions
Questions(data) ==
  [k \in 1..((Len(data) - 1) \div 3) |-> SubSeq(data, 3 * k - 1, 3 * k + 1)]

\* Server.IPv4ForDNS: NoIP when the name is not known
IPv4ForDNS(qname) ==
  IF qname = DNSDns THEN fakeDNSIP
  ELSE IF qname = DNSTestDriver THEN fakeTestAgentIP
  ELSE IF qname = DNSControlplane THEN fakeControlplaneIP
  ELSE NoIP

AnswerableAnyType(q) == IPv4ForDNS(q[1]) # NoIP

\* createDNSResponse, loop body: the question gets an answer
Answerable(q) == q[3] = DNSClassIN /\ q[2] = DNSTypeA /\ IPv4ForDNS(q[1]) # NoIP

\* Server.createDNSResponse: nil when a question asks for an NTP pool name,
\* else a response with the ID, every question, and an answer with TTL 60
\* for each answerable question, sent back the way the query came
createDNSResponse(ep) ==
  LET qs == Questions(ep.payload.data)
      as == SelectSeq(qs, Answerable)
      answers == [k \in 1..Len(as) |-> as[k] \o IPv4ForDNS(as[k][1]) \o <<60>>]
  IN  IF qs = <<>> \/ \E k \in 1..Len(qs) : qs[k][1] = DNSPoolNTP THEN NoFrame
      ELSE Frame(ep.src, ep.dst, "IPv4", ep.ipdst, ep.ipsrc, "udp", ep.dport, ep.sport,
                 Payload("dnsResp", <<ep.payload.data[1], Len(qs), Len(as)>>
                                      \o Flatten(qs) \o Flatten(answers)))

\* network.createARPResponse: NoFrame unless ep is a well-formed request for
\* an IP MACOfIP knows
createARPResponse(n, ep) ==
  IF ep.proto # "request" \/ ep.payload.kind # "arp" \/ MACOfIP(n, ep.ipdst) = NoIP
  THEN NoFrame
  ELSE Frame(ep.src, MACOfIP(n, ep.ipdst), "ARP", ep.ipdst, ep.ipsrc, "reply", 0, 0,
             Payload("arp", MACOfIP(n, ep.ipdst)))

\* binary.BigEndian.AppendUint32: the four octets of v, most significant first
AppendUint32(v) ==
  <<(v \div 16777216) % 256, (v \div 65536) % 256, (v \div 256) % 256, v % 256>>

\* network.handleNATPMPRequest: the public address request 00 00 is answered
\* with version 0, op 128, result 0, the time and the WAN IP
handleNATPMPRequest(n, wf, req) ==
  IF req.payload.data = <<0, 0>>
  THEN WriteUDPPacketNoNAT(n, wf,
         UDPPacket(req.dst, req.src,
                   Payload("natpmp", <<0, 128, 0, 0>> \o AppendUint32(now) \o NetWANIP(n))))
  ELSE <<>>

\* Server.derpIPs, as PopulateDERPMapIPs left it
derpIPs == {<<9, 9, 9, 1>>}

shouldInterceptTCPAnyWeb(ep) ==
  /\ ep.proto = "tcp"
  /\ \/ ep.dport \in {123, 80, 443}
     \/ ep.dport = 8008 /\ ep.ipdst = fakeTestAgentIP

\* Server.shouldInterceptTCP
shouldInterceptTCP(ep) ==
  /\ ep.proto = "tcp"
  /\ \/ ep.dport = 123
     \/ ep.dport \in {80, 443} /\ (ep.ipdst = fakeControlplaneIP \/ ep.ipdst \in derpIPs)
     \/ ep.dport = 8008 /\ ep.ipdst = fakeTestAgentIP

(***************************************************************************)
(* The router of network n handling one frame: the possible effects        *)
(* [nat, writes, wan, stack] (NAT tables, writer calls in order, packets   *)
(* handed to routeUDPPacket, TCP stack queues).                            *)
(***************************************************************************)
Eff(nat, writes, wan, stack) == [nat |-> nat, writes |-> writes, wan |-> wan, stack |-> stack]

\* what the TCP stack queues for its reader when a segment is injected: a
\* segment back to the sender, dropped when the queue is full
InjectInbound(n, stack, ep) ==
  IF Len(stack[n]) >= MaxStackQueue THEN stack
  ELSE [stack EXCEPT ![n] = Append(@, [src |-> AddrPortFrom(ep.ipdst, ep.dport),
                                       dst |-> AddrPortFrom(ep.ipsrc, ep.sport)])]

\* network.HandleEthernetIPv4PacketForRouter
HandleEthernetIPv4PacketForRouter(n, ep, nat, wf, stack) ==
  LET toForward == ep.ipdst # NetLANIP(n) /\ ep.ipdst # IPv4Unspecified
      isUDP == ep.proto = "udp"
      src == AddrPortFrom(ep.ipsrc, ep.sport)
      dst == AddrPortFrom(ep.ipdst, ep.dport)
  IN  IF isDHCPRequest(ep)
      THEN {Eff(nat, writeEth(wf[n], createDHCPResponse(ep)), <<>>, stack)}
      ELSE IF isMDNSQuery(ep) \/ isIGMP(ep)
      THEN {Eff(nat, <<>>, <<>>, stack)}
      ELSE IF isDNSRequest(ep)
      THEN {Eff(nat, writeEth(wf[n], createDNSResponse(ep)), <<>>, stack)}
      ELSE IF ~toForward /\ isNATPMP(ep)
      THEN {Eff(nat, handleNATPMPRequest(n, wf, UDPPacket(src, dst, ep.payload)), <<>>, stack)}
      ELSE IF toForward /\ isUDP
      THEN {LET up == UDPPacket(o.res, dst, ep.payload)
                r  == routeUDPPacket(o.nat, wf, up)
            IN  Eff(r.nat, r.writes, <<up>>, stack) : o \in doNATOut(n, nat, src, dst)}
      ELSE IF toForward /\ shouldInterceptTCP(ep)
      THEN {Eff(nat, <<>>, <<>>, InjectInbound(n, stack, ep))}
      ELSE {Eff(nat, <<>>, <<>>, stack)}

HandleEthernetPacketAlwaysRouter(n, ep, nat, wf, stack) ==
  IF ep.etype = "ARP"
  THEN {Eff(nat, writeEth(wf[n], createARPResponse(n, ep)), <<>>, stack)}
  ELSE IF ep.etype # "IPv4"
  THEN {Eff(nat, <<>>, <<>>, stack)}
  ELSE {Eff(e.nat, writeEth(wf[n], ep) \o e.writes, e.wan, e.stack) :
          e \in HandleEthernetIPv4PacketForRouter(n, ep, nat, wf, stack)}

\* network.HandleEthernetPacket
HandleEthernetPacket(n, ep, nat, wf, stack) ==
  LET forRouter == ep.dst = NetMAC(n) \/ IsBroadcast(ep.dst)
  IN  IF ep.etype = "ARP"
      THEN {Eff(nat, writeEth(wf[n], createARPResponse(n, ep)), <<>>, stack)}
      ELSE IF ep.etype # "IPv4"
      THEN {Eff(nat, <<>>, <<>>, stack)}
      ELSE IF forRouter
      THEN {Eff(e.nat, writeEth(wf[n], ep) \o e.writes, e.wan, e.stack) :
              e \in HandleEthernetIPv4PacketForRouter(n, ep, nat, wf, stack)}
      ELSE {Eff(nat, writeEth(wf[n], ep), <<>>, stack)}

(***************************************************************************)
(* The frames guests send.                                                 *)
(***************************************************************************)
\* a STUN server on the Internet
StunAddr == AddrPortFrom(<<1, 2, 3, 4>>, stunPort)

\* the UDP port guests send from
GuestPort == 5000

\* an IP address that is neither a router's nor a node's
UnknownIP == <<192, 168, 1, 77>>

\* the LAN IP a guest with MAC m uses
IPOfMAC(m) == IF nodeByMAC(m) = Nil THEN UnknownIP ELSE NodeLANIP(nodeByMAC(m))

\* the router MAC a guest with MAC m sends routed traffic to
GatewayOf(m) == IF nodeByMAC(m) = Nil THEN NetMAC(1) ELSE NetMAC(NodeNet(nodeByMAC(m)))

ARPFrame(m, t, op) ==
  Frame(BroadcastMAC, m, "ARP", IPOfMAC(m), t, op, 0, 0, Payload("arp", m))

\* who-has for the sender's own IP, the router, a peer, nobody; an ARP
\* reply; a request from a MAC that is no node's
ARPFrames ==
  {ARPFrame(NodeMAC(1), t, "request") :
     t \in {NodeLANIP(1), NodeLANIP(2), NetLANIP(1), UnknownIP}}
    \cup {ARPFrame(NodeMAC(1), NetLANIP(1), "reply"),
          ARPFrame(NodeMAC(2), NodeLANIP(2), "request"),
          ARPFrame(UnknownMAC, NetLANIP(1), "request")}

DHCPFrame(m, t) ==
  Frame(BroadcastMAC, m, "IPv4", IPv4Unspecified, <<255, 255, 255, 255>>, "udp", 68, 67,
        Payload("dhcp", <<t>>))

DHCPFrames ==
  {DHCPFrame(NodeMAC(1), DHCPDiscover), DHCPFrame(NodeMAC(1), DHCPRequest),
   DHCPFrame(NodeMAC(2), DHCPDiscover), DHCPFrame(NodeMAC(3), DHCPDiscover)}

LANFrame(m, j) ==
  Frame(NodeMAC(j), m, "IPv4", IPOfMAC(m), NodeLANIP(j), "udp", GuestPort, GuestPort,
        Payload("data", <<>>))

\* frames from one guest to another, to itself, to a node of another network
LANFrames ==
  {LANFrame(NodeMAC(1), 2), LANFrame(NodeMAC(1), 1), LANFrame(NodeMAC(2), 1),
   LANFrame(NodeMAC(1), 3)}

WANFrame(m, d) ==
  Frame(GatewayOf(m), m, "IPv4", IPOfMAC(m), d.addr, "udp", GuestPort, d.port,
        Payload(IF d.port = stunPort THEN "stunReq" ELSE "data", <<7>>))

\* UDP to the Internet, through the router, from the first node of each
\* network: to the STUN server and to the first pool port of the other
\* network's WAN IP; and from the first node to the STUN port of the other
\* network's WAN IP
WANFrames ==
  {WANFrame(NodeMAC(1), StunAddr), WANFrame(NodeMAC(1), AddrPortFrom(NetWANIP(2), PortBase)),
   WANFrame(NodeMAC(1), AddrPortFrom(NetWANIP(2), stunPort)),
   WANFrame(NodeMAC(3), StunAddr), WANFrame(NodeMAC(3), AddrPortFrom(NetWANIP(1), PortBase))}

\* the queries guests send: <<ID, questions>>
DNSQueries ==
  { <<7, <<Question(DNSControlplane, DNSTypeA, DNSClassIN)>> >>,
    <<9, <<Question(DNSDns, DNSTypeA, DNSClassIN),
           Question(DNSTestDriver, DNSTypeA, DNSClassIN)>> >>,
    <<7, <<Question(DNSOther, DNSTypeA, DNSClassIN)>> >>,
    <<7, <<Question(DNSControlplane, DNSTypeAAAA, DNSClassIN),
           Question(DNSDns, DNSTypeA, DNSClassCH)>> >>,
    <<7, <<Question(DNSControlplane, DNSTypeA, DNSClassIN),
           Question(DNSPoolNTP, DNSTypeA, DNSClassIN)>> >>,
    <<7, <<Question(DNSPoolNTP, DNSTypeAAAA, DNSClassIN)>> >> }

DNSFrames ==
  {Frame(GatewayOf(m), m, "IPv4", IPOfMAC(m), fakeDNSIP, "udp", GuestPort, 53,
         DNSQuery(q[1], q[2])) :
     m \in {NodeMAC(2)}, q \in DNSQueries}

NATPMPFrames ==
  {Frame(GatewayOf(m), m, "IPv4", IPOfMAC(m), NetLANIP(NodeNet(nodeByMAC(m))), "udp",
         GuestPort, 5351, Payload("raw", d)) :
     m \in {NodeMAC(2)}, d \in {<<0, 0>>, <<0, 1>>}}

TCPFrames ==
  {Frame(GatewayOf(m), m, "IPv4", IPOfMAC(m), d.addr, "tcp", GuestPort, d.port,
         Payload("syn", <<>>)) :
     m \in {NodeMAC(2)},
     d \in {AddrPortFrom(fakeTestAgentIP, 8008), AddrPortFrom(fakeTestAgentIP, 22)}}

OtherFrames ==
  {Frame(BroadcastMAC, m, t, NoIP, NoIP, "none", 0, 0, NoPayload) :
     m \in {NodeMAC(1)}, t \in {"IPv6", "other"}}

GuestFrames ==
  ARPFrames \cup DHCPFrames \cup LANFrames \cup WANFrames \cup DNSFrames
    \cup NATPMPFrames \cup TCPFrames \cup OtherFrames

(***************************************************************************)
(* Initial state: New has returned; no guest is connected.                 *)
(***************************************************************************)
\* a goroutine of SpecNAT that is in no call
(***************************************************************************)
(* New and Server.initFromConfig on any Config.  A Config is [networks,    *)
(* pad, nodes]: the AddNetwork calls, then pad AddNode calls on the first  *)
(* network, then the AddNode calls of nodes.  A network is [wanIP, lanIP,  *)
(* bits, natType, err] (lanIP = NoIP: no prefix given; natType = "": none  *)
(* given) and a node [nets, err], err being the carried option error.      *)
(***************************************************************************)
MaxConfNets == 2

MaxConfNodes == 2

\* the AddNode calls that come first in the large configurations
PadNodes == 256

\* the sequences over S of length at most n
SeqsUpTo(S, n) == UNION {[1..m -> S] : m \in 0..n}

\* netip.MustParsePrefix("192.168.0.0/24")
DefaultPrefix == [addr |-> <<192, 168, 0, 0>>, bits |-> 24]

\* the AddNetwork calls tried
NetOpts ==
  { [wanIP |-> <<2, 1, 1, 1>>, lanIP |-> NoIP, bits |-> 0, natType |-> "", err |-> FALSE],
    [wanIP |-> <<2, 2, 2, 2>>, lanIP |-> <<192, 168, 0, 0>>, bits |-> 30,
     natType |-> HardNAT, err |-> FALSE],
    [wanIP |-> <<2, 2, 2, 2>>, lanIP |-> NoIP, bits |-> 0, natType |-> "bogus",
     err |-> FALSE],
    [wanIP |-> <<2, 3, 3, 3>>, lanIP |-> NoIP, bits |-> 0, natType |-> "", err |-> TRUE] }

\* the AddNode calls tried when there are k networks: no network, one, two
\* with the later one first, or an option of unknown type
NodeOpts(k) ==
  {[nets |-> <<>>, err |-> FALSE], [nets |-> <<>>, err |-> TRUE]}
    \cup {[nets |-> <<a>>, err |-> FALSE] : a \in 1..k}
    \cup UNION {{[nets |-> <<a, b>>, err |-> FALSE] : b \in 1..(a - 1)} : a \in 1..k}

Configs ==
  UNION {{[networks |-> ns, pad |-> 0, nodes |-> ds] :
            ds \in SeqsUpTo(NodeOpts(Len(ns)), MaxConfNodes)} :
           ns \in SeqsUpTo(NetOpts, MaxConfNets)}
    \cup {[networks |-> <<ns>>, pad |-> PadNodes, nodes |-> ds] :
            ns \in {n \in NetOpts : ~n.err /\ n.natType = ""},
            ds \in SeqsUpTo({[nets |-> <<1>>, err |-> FALSE]}, 1)}

\* Config.nodes
confNodes(c) ==
  [j \in 1..(c.pad + Len(c.nodes)) |->
     IF j <= c.pad THEN [nets |-> <<1>>, err |-> FALSE] ELSE c.nodes[j - c.pad]]

\* Node.Network: the first network of the node, Nil when it has none
Network(d) == IF d.nets = <<>> THEN Nil ELSE d.nets[1]

\* initFromConfig: the LAN prefix of network i, the default when none given
confLAN(c, i) ==
  IF c.networks[i].lanIP = NoIP THEN DefaultPrefix
  ELSE [addr |-> c.networks[i].lanIP, bits |-> c.networks[i].bits]

\* initFromConfig, first loop: network i carries an error or has the WAN IP
\* of an earlier network
badNetwork(c, i) ==
  \/ c.networks[i].err
  \/ \E k \in 1..(i - 1) : c.networks[k].wanIP = c.networks[i].wanIP

\* initFromConfig, second loop, on node j: the carried error, then the
\* duplicate MAC check, then n.net.lanIP, which dereferences nil when the
\* node has no network
nodeOutcome(c, j) ==
  IF confNodes(c)[j].err THEN "error"
  ELSE IF \E k \in 1..(j - 1) : NodeMAC(k) = NodeMAC(j) THEN "error"
  ELSE IF Network(confNodes(c)[j]) = Nil THEN "panic"
  ELSE "ok"

\* initFromConfig: ip4[3] = 101 + n.mac[5], in byte arithmetic
allocLANIP(pfx, mac) == <<pfx.addr[1], pfx.addr[2], pfx.addr[3], (101 + mac[6]) % 256>>

\* cmp.Or(conf.natType, EasyNAT)
natTypeOf(netw) == IF netw.natType = "" THEN EasyNAT ELSE netw.natType

\* New without a server
Failed(how) == [status |-> how, nodes |-> <<>>, networks |-> <<>>]

\* srv before New is called
NoServer == Failed("none")

\* Server.initFromConfig: "error", "panic", or the runtime nodes and networks
initFromConfig(c) ==
  LET nn    == Len(c.networks)
      nd    == Len(confNodes(c))
      stops == {j \in 1..nd : nodeOutcome(c, j) # "ok"}
  IN  IF \E i \in 1..nn : badNetwork(c, i) THEN Failed("error")
      ELSE IF stops # {}
      THEN Failed(nodeOutcome(c, CHOOSE j \in stops : \A k \in stops : j <= k))
      ELSE IF \E i \in 1..nn : natTypeOf(c.networks[i]) \notin natTypes THEN Failed("error")
      ELSE [status |-> "ok",
            nodes |-> [j \in 1..nd |->
                         [mac |-> NodeMAC(j), net |-> Network(confNodes(c)[j]),
                          lanIP |-> allocLANIP(confLAN(c, Network(confNodes(c)[j])),
                                               NodeMAC(j))]],
            networks |-> [i \in 1..nn |->
                            [wanIP |-> c.networks[i].wanIP, lan |-> confLAN(c, i),
                             natType |-> natTypeOf(c.networks[i])]]]

\* New: initFromConfig, then initStack on every network
New(c) == initFromConfig(c)

\* the Config of the running server
TheConfig ==
  [networks |-> [i \in Nets |->
                   [wanIP |-> ConfNetworks[i].wanIP, lanIP |-> ConfNetworks[i].lanIP,
                    bits |-> ConfNetworks[i].bits, natType |-> ConfNetworks[i].natType,
                    err |-> FALSE]],
   pad |-> 0,
   nodes |-> [j \in Nodes |-> [nets |-> ConfNodes[j], err |-> FALSE]]]

\* a nil *agentConn
NoConn == [id |-> 0, node |-> Nil]

IdleThread ==
  [pc |-> "idle", op |-> "none", src |-> NoAddrPort, dst |-> NoAddrPort,
   typ |-> "none", tbl |-> 0]

\* a takeAgentConn call that has not been made
NoCall == [pc |-> "none", node |-> Nil, cancelled |-> FALSE, res |-> NoConn, err |-> "nil"]

\* lastOut before any doNATOut call for the watched flow
NoOut == [res |-> NoAddrPort, at |-> 0, epoch |-> 0, prev |-> FALSE, pres |-> NoAddrPort]

Threads == {1, 2}

Callers == {1, 2}

\* the sessions: one Hijacker, made by New in hijacker.go, for each
Sessions == {1, 2}

\* what Hijack has not yet returned
NoRet == [conn |-> "none", err |-> FALSE, returned |-> FALSE]

\* no acceptTCP call yet
NoAccept ==
  [called |-> FALSE, src |-> NoIP, dst |-> NoAddrPort, epOK |-> FALSE, dialOK |-> FALSE,
   outcome |-> "none", tick |-> FALSE]

\* before any session is hijacked, and before any TCP connection attempt
InitHijack ==
  /\ hijacker = [s \in Sessions |-> [failOpen |-> FALSE, pc |-> "none", dial |-> "none"]]
  /\ reqConn = [s \in Sessions |-> [state |-> "none", status |-> 0, wrote |-> FALSE]]
  /\ lc = [s \in Sessions |-> [made |-> FALSE, failed |-> FALSE, closed |-> FALSE,
                                hclose |-> FALSE]]
  /\ ret = [s \in Sessions |-> NoRet]
  /\ errChan = [s \in Sessions |-> [buf |-> <<>>, sends |-> 0]]
  /\ gor = [s \in Sessions |-> [pc |-> "none", got |-> "none"]]
  /\ uploaded = 0
  /\ lastAccept = NoAccept

\* New, initFromConfig: every network gets the table of its NAT type
Init ==
  /\ fatal = FALSE
  /\ conn = [c \in Conns |-> [state |-> "closed", srcNode |-> Nil]]
  /\ writeFunc = [n \in Nets |-> <<>>]
  /\ natTable = [n \in Nets |-> newNATTable(ConfNetworks[n].natType)]
  /\ natStyle = [n \in Nets |-> ConfNetworks[n].natType]
  /\ now = 0
  /\ stackOut = [n \in Nets |-> <<>>]
  /\ registered = [c \in Conns |-> {}]
  /\ lastHandled = NoHandled
  /\ lastWrites = <<>>
  /\ lastWAN = <<>>
  /\ werr = {}
  /\ natMu = [n \in Nets |-> Nil]
  /\ natEpoch = [n \in Nets |-> 1]
  /\ thr = [t \in Threads |-> IdleThread]
  /\ lastOut = NoOut
  /\ agentConns = {}
  /\ agentConnWaiter = [i \in Nodes |-> Nil]
  /\ call = [c \in Callers |-> NoCall]
  /\ added = <<>>
  /\ conf = TheConfig
  /\ srv = New(TheConfig)
  /\ hand = [c \in Conns |-> <<>>]
  /\ sent = [c \in Conns |-> 0]
  /\ rcvd = [c \in Conns |-> <<>>]
  /\ InitHijack

(***************************************************************************)
(* Guest transports: Server.ServeUnixConn, one loop iteration per step.    *)
(***************************************************************************)
\* cap(buf) in ServeUnixConn
BufSize == 16384

\* the declared lengths a QEMU stream may carry in its 4-byte header
FrameLens == {60, BufSize - 4, BufSize - 3}

\* buf[4 : 4+n] is within the buffer (for the lengths of FrameLens, 4+n does
\* not wrap around the uint32)
SliceOK(n) == 4 + n <= BufSize

SrcMACAny(srcNode, srcMAC) == TRUE

\* ServeUnixConn's check of a frame's source against the node it locked onto
SrcMACOK(srcNode, srcMAC) == srcMAC = NodeMAC(srcNode)

\* a guest connects: ServeUnixConn starts with no srcNode
Connect(c) ==
  /\ ~fatal
  /\ conn[c].state = "closed"
  /\ conn' = [conn EXCEPT ![c] = [state |-> "open", srcNode |-> Nil]]
  /\ registered' = [registered EXCEPT ![c] = {}]
  /\ werr' = werr \ {c}
  /\ lastHandled' = NoHandled
  /\ lastWrites' = <<>>
  /\ lastWAN' = <<>>
  /\ UNCHANGED <<writeFunc, stackOut, natVars, natThreadVars, agentVars, fatal>>
  /\ UNCHANGED <<confVars, orderVars, hijVars, lastAccept>>

\* the frame from srcMAC is dropped and the loop continues
DropFrame(c, srcMAC) ==
  /\ lastHandled' = [conn |-> c, src |-> srcMAC, handled |-> FALSE, frame |-> NoFrame,
                      err |-> Nil]
  /\ lastWrites' = <<>>
  /\ lastWAN' = <<>>
  /\ UNCHANGED <<conn, writeFunc, stackOut, registered, natVars, werr>>

\* writePkt: a failed write or flush of a transport's bufio.Writer is
\* logged, and the writer then fails every later write.  The failed
\* transports after the writer calls ws, when the writes to the transports
\* in F fail.
WriteErrors(ws, F) == werr \cup (F \cap {ws[k].conn : k \in 1..Len(ws)})

\* the frame ep reaches HandleEthernetPacket of network n, with registry wf;
\* the writes of this step to the transports in F fail
Handle(c, n, ep, wf, F) ==
  \E e \in HandleEthernetPacket(n, ep, natTable, wf, stackOut) :
    /\ natTable' = e.nat
    /\ stackOut' = e.stack
    /\ lastWrites' = e.writes
    /\ lastWAN' = e.wan
    /\ lastHandled' = [conn |-> c, src |-> ep.src, handled |-> TRUE, frame |-> ep,
                        err |-> Nil]
    /\ writeFunc' = wf
    /\ werr' = WriteErrors(e.writes, F)
    /\ UNCHANGED <<natStyle, now>>

\* a frame that parses as Ethernet is read from transport c
ServeFrame(c, ep, F) ==
  /\ ~fatal
  /\ conn[c].state = "open"
  /\ IF conn[c].srcNode = Nil
     THEN IF nodeByMAC(ep.src) = Nil
          THEN DropFrame(c, ep.src)
          ELSE LET node == nodeByMAC(ep.src)
                   netw == NodeNet(node)
               IN  /\ conn' = [conn EXCEPT ![c].srcNode = node]
                   /\ registered' = [registered EXCEPT ![c] = @ \cup {ep.src}]
                   /\ Handle(c, netw, ep,
                             [writeFunc EXCEPT ![netw] = registerWriter(@, ep.src, c)], F)
     ELSE IF ~SrcMACOK(conn[c].srcNode, ep.src)
          THEN DropFrame(c, ep.src)
          ELSE /\ Handle(c, NodeNet(conn[c].srcNode), ep, writeFunc, F)
               /\ UNCHANGED <<conn, registered>>
  /\ UNCHANGED <<natThreadVars, agentVars, fatal>>
  /\ UNCHANGED <<confVars, hijVars, lastAccept>>

\* a read yields no Ethernet frame with 6-byte MACs: continue
ReadShort(c) ==
  /\ ~fatal
  /\ conn[c].state = "open"
  /\ DropFrame(Nil, NoIP)
  /\ UNCHANGED <<natThreadVars, agentVars, fatal>>
  /\ UNCHANGED <<confVars, orderVars, hijVars, lastAccept>>

\* a QEMU header declares n bytes that do not fit buf[4:4+n]: the slice
\* expression panics
ReadQEMULen(c, n) ==
  /\ ~fatal
  /\ conn[c].state = "open"
  /\ ProtoOf(c) = QEMU
  /\ ~SliceOK(n)
  /\ fatal' = TRUE
  /\ lastHandled' = NoHandled
  /\ lastWrites' = <<>>
  /\ lastWAN' = <<>>
  /\ UNCHANGED <<conn, writeFunc, stackOut, registered, werr, natVars, natThreadVars,
                 agentVars>>
  /\ UNCHANGED <<confVars, orderVars, hijVars, lastAccept>>

\* a read fails.  A QEMU transport returns: the deferred
\* registerWriter(srcMAC, nil) and uc.Close run.  A datagram transport logs
\* and continues.
ReadError(c) ==
  /\ ~fatal
  /\ conn[c].state = "open"
  /\ IF ProtoOf(c) = QEMU
     THEN /\ conn' = [conn EXCEPT ![c] = [state |-> "closed", srcNode |-> Nil]]
          /\ writeFunc' =
               IF conn[c].srcNode = Nil THEN writeFunc
               ELSE [writeFunc EXCEPT ![NodeNet(conn[c].srcNode)] =
                       registerWriter(@, NodeMAC(conn[c].srcNode), Nil)]
          /\ werr' = werr \ {c}
     ELSE UNCHANGED <<conn, writeFunc, werr>>
  /\ lastHandled' = [NoHandled EXCEPT !.err = c]
  /\ lastWrites' = <<>>
  /\ lastWAN' = <<>>
  /\ UNCHANGED <<stackOut, registered, natVars, natThreadVars, agentVars, fatal>>
  /\ UNCHANGED <<confVars, orderVars, hijVars, lastAccept>>

\* the reader goroutine of initStack takes one packet from linkEP and writes
\* it, with an Ethernet header, to the writer of the destination node
StackWrite(n, F) ==
  /\ ~fatal
  /\ stackOut[n] # <<>>
  /\ LET pkt  == Head(stackOut[n])
         node == nodesByIP(n, pkt.dst.addr)
         eth  == Frame(NodeMAC(node), NetMAC(n), "IPv4", pkt.src.addr, pkt.dst.addr,
                       "tcp", pkt.src.port, pkt.dst.port, Payload("seg", <<>>))
     IN  lastWrites' = IF node # Nil /\ NodeMAC(node) \in DOMAIN writeFunc[n]
                       THEN <<Write(writeFunc[n][NodeMAC(node)], NodeMAC(node), eth)>>
                       ELSE <<>>
  /\ werr' = WriteErrors(lastWrites', F)
  /\ stackOut' = [stackOut EXCEPT ![n] = Tail(@)]
  /\ lastHandled' = NoHandled
  /\ lastWAN' = <<>>
  /\ UNCHANGED <<conn, writeFunc, registered, natVars, natThreadVars, agentVars, fatal>>
  /\ UNCHANGED <<confVars, orderVars, hijVars, lastAccept>>

\* ServeFrame when every write succeeds
ReadFrame(c, ep) == ServeFrame(c, ep, {}) /\ UNCHANGED orderVars

\* StackWrite when the write succeeds
StackRead(n) == StackWrite(n, {})

Next ==
  \/ \E c \in Conns : Connect(c)
  \/ \E c \in Conns, ep \in GuestFrames : ReadFrame(c, ep)
  \/ \E c \in Conns : ReadShort(c)
  \/ \E c \in Conns, n \in FrameLens : ReadQEMULen(c, n)
  \/ \E c \in Conns : ReadError(c)
  \/ \E n \in Nets : StackRead(n)

Spec == Init /\ [][Next]_vars

(***************************************************************************)
(* SpecWrite: the transports with writes that may fail.  A failed write    *)
(* changes nothing but the state of the transport's bufio.Writer, so Spec  *)
(* leaves it out; here it happens, on LAN traffic.                         *)
(***************************************************************************)
\* the frames guests send in SpecWrite
WriteFrames == ARPFrames \cup LANFrames \cup TCPFrames

\* a frame is read and handled; writes of the step may fail
ReadFrameW(c, ep, F) == ServeFrame(c, ep, F) /\ UNCHANGED orderVars

\* the stack reader writes a packet; the write may fail
StackReadW(n, F) == StackWrite(n, F)

NextWrite ==
  \/ \E c \in Conns : Connect(c)
  \/ \E c \in Conns, ep \in WriteFrames, F \in SUBSET Conns : ReadFrameW(c, ep, F)
  \/ \E c \in Conns : ReadError(c)
  \/ \E n \in Nets, F \in SUBSET Conns : StackReadW(n, F)

SpecWrite == Init /\ [][NextWrite]_vars

(***************************************************************************)
(* SpecOrder: the loop of ServeUnixConn with the writer calls of a frame   *)
(* as steps of their own, so that the handling of a frame of one transport *)
(* interleaves with the loops of the other transports.                     *)
(***************************************************************************)
OrderFrames ==
  {LANFrame(NodeMAC(1), 2), LANFrame(NodeMAC(2), 1),
   DHCPFrame(NodeMAC(1), DHCPDiscover), WANFrame(NodeMAC(1), StunAddr)}

LoopAtReadAlways(c) == TRUE

\* the loop of transport c is at its read: netw.HandleEthernetPacket is
\* called in the loop body, not in a goroutine, so the loop reads again
\* only when the call has returned
LoopAtRead(c) == hand[c] = <<>>

\* transport c reads its next frame and HandleEthernetPacket decides the
\* writer calls to make; a call with none returns at once
OrdRead(c, ep) ==
  /\ LoopAtRead(c)
  /\ sent[c] < MaxFrames
  /\ ServeFrame(c, ep, {})
  /\ sent' = [sent EXCEPT ![c] = @ + 1]
  /\ hand' = IF lastWrites' = <<>> THEN hand
             ELSE [hand EXCEPT ![c] = Append(@, [seq |-> sent[c] + 1, writes |-> lastWrites'])]
  /\ UNCHANGED rcvd

\* a HandleEthernetPacket call of transport c makes its next writer call, and
\* returns when that was its last
OrdWrite(c, i) ==
  /\ ~fatal
  /\ i \in 1..Len(hand[c])
  /\ LET h == hand[c][i]
         w == Head(h.writes)
     IN  /\ rcvd' = [rcvd EXCEPT ![w.conn] = Append(@, <<c, h.seq>>)]
         /\ hand' = [hand EXCEPT ![c] =
                       IF Len(h.writes) = 1
                       THEN SubSeq(@, 1, i - 1) \o SubSeq(@, i + 1, Len(@))
                       ELSE [@ EXCEPT ![i].writes = Tail(h.writes)]]
  /\ UNCHANGED <<linkVars, natVars, natThreadVars, agentVars, confVars, hijVars, lastAccept, sent, fatal>>

\* a transport is connected; none is handling a frame yet
ConnectOrd(c) == Connect(c)

NextOrder ==
  \/ \E c \in Conns : ConnectOrd(c)
  \/ \E c \in Conns, ep \in OrderFrames : OrdRead(c, ep)
  \/ \E c \in Conns, i \in 1..MaxFrames : OrdWrite(c, i)

SpecOrder == Init /\ [][NextOrder]_vars

(***************************************************************************)
(* SpecHijack: k8s-operator/sessionrecording.  Each session has its own    *)
(* Hijacker; Hijack runs in two steps (the inner Hijack, then              *)
(* setUpRecording), the goroutine setUpRecording starts runs one step per  *)
(* call it makes, and the recorder and the caller of Hijack act in         *)
(* between.  LiveHijack adds the scheduler's fairness to the goroutine.    *)
(***************************************************************************)
\* what Hijack returns
Returned(c, e) == [conn |-> c, err |-> e, returned |-> TRUE]

\* New: a Hijacker for session s
NewHijacker(s, fo) ==
  /\ hijacker[s].pc = "none"
  /\ hijacker' = [hijacker EXCEPT ![s] = [failOpen |-> fo, pc |-> "new", dial |-> "none"]]
  /\ UNCHANGED <<reqConn, lc, ret, errChan, gor, uploaded>>
  /\ UNCHANGED <<linkVars, natVars, natThreadVars, agentVars, confVars, orderVars, lastAccept,
                 fatal>>

\* Hijack, first half: h.ResponseWriter.(http.Hijacker).Hijack() returns the
\* connection, or an error that Hijack wraps and returns
HijackConn(s, ok) ==
  /\ hijacker[s].pc = "new"
  /\ IF ok
     THEN /\ reqConn' = [reqConn EXCEPT ![s].state = "open"]
          /\ hijacker' = [hijacker EXCEPT ![s].pc = "setUp"]
          /\ UNCHANGED ret
     ELSE /\ ret' = [ret EXCEPT ![s] = Returned("none", TRUE)]
          /\ hijacker' = [hijacker EXCEPT ![s].pc = "done"]
          /\ UNCHANGED reqConn
  /\ UNCHANGED <<lc, errChan, gor, uploaded>>
  /\ UNCHANGED <<linkVars, natVars, natThreadVars, agentVars, confVars, orderVars, lastAccept,
                 fatal>>

closeConnWithWarningKeepOpen(c, writeOK) ==
  [state |-> IF writeOK THEN "closed" ELSE c.state, status |-> 403, wrote |-> writeOK]

\* closeConnWithWarning: a 403 response is written to the connection, and
\* the connection is closed whether or not the write succeeded
closeConnWithWarning(c, writeOK) ==
  [state |-> "closed", status |-> 403, wrote |-> writeOK]

\* setUpRecording when connectToRecorder returns an error; closeConnWithWarning
\* returns an error or nil, setUpRecording an error either way
ConnectFails(s, writeOK) ==
  /\ hijacker[s].pc = "setUp"
  /\ hijacker' = [hijacker EXCEPT ![s].pc = "done", ![s].dial = "err"]
  /\ IF hijacker[s].failOpen
     THEN /\ ret' = [ret EXCEPT ![s] = Returned("reqConn", FALSE)]
          /\ UNCHANGED reqConn
     ELSE /\ reqConn' = [reqConn EXCEPT ![s] = closeConnWithWarning(@, writeOK)]
          /\ ret' = [ret EXCEPT ![s] = Returned("none", TRUE)]
  /\ UNCHANGED <<lc, errChan, gor, uploaded>>
  /\ UNCHANGED <<linkVars, natVars, natThreadVars, agentVars, confVars, orderVars, lastAccept,
                 fatal>>

\* setUpRecording when connectToRecorder succeeds: spdy.New wraps the
\* connection, the goroutine starts, and lc is returned
ConnectOK(s) ==
  /\ hijacker[s].pc = "setUp"
  /\ hijacker' = [hijacker EXCEPT ![s].pc = "done", ![s].dial = "ok"]
  /\ lc' = [lc EXCEPT ![s].made = TRUE]
  /\ gor' = [gor EXCEPT ![s].pc = "select"]
  /\ ret' = [ret EXCEPT ![s] = Returned("lc", FALSE)]
  /\ UNCHANGED <<reqConn, errChan, uploaded>>
  /\ UNCHANGED <<linkVars, natVars, natThreadVars, agentVars, confVars, orderVars, lastAccept,
                 fatal>>

\* the recorder sends nil (upload finished) or an error on the channel
RecorderSends(s, e) ==
  /\ hijacker[s].dial = "ok"
  /\ errChan[s].sends < MaxSends
  /\ errChan' = [errChan EXCEPT ![s].buf = Append(@, e), ![s].sends = @ + 1]
  /\ UNCHANGED <<hijacker, reqConn, lc, ret, gor, uploaded>>
  /\ UNCHANGED <<linkVars, natVars, natThreadVars, agentVars, confVars, orderVars, lastAccept,
                 fatal>>

onErrorAlwaysFail(fo) == "fail"

\* the goroutine on a non-nil error: it returns when failOpen is set, else
\* goes on to lc.Fail
onError(fo) == IF fo THEN "done" ELSE "fail"

\* the goroutine's select receives from errChan (ctx is context.Background(),
\* whose Done channel never delivers): nil counts an uploaded recording
GoReceive(s) ==
  /\ gor[s].pc = "select"
  /\ errChan[s].buf # <<>>
  /\ errChan' = [errChan EXCEPT ![s].buf = Tail(@)]
  /\ IF Head(errChan[s].buf) = "nil"
     THEN /\ uploaded' = uploaded + 1
          /\ gor' = [gor EXCEPT ![s] = [pc |-> "done", got |-> "nil"]]
     ELSE /\ gor' = [gor EXCEPT ![s] = [pc |-> onError(hijacker[s].failOpen),
                                        got |-> "err"]]
          /\ UNCHANGED uploaded
  /\ UNCHANGED <<hijacker, reqConn, lc, ret>>
  /\ UNCHANGED <<linkVars, natVars, natThreadVars, agentVars, confVars, orderVars, lastAccept,
                 fatal>>

\* the goroutine calls lc.Fail()
GoFail(s) ==
  /\ gor[s].pc = "fail"
  /\ lc' = [lc EXCEPT ![s].failed = TRUE]
  /\ gor' = [gor EXCEPT ![s].pc = "close"]
  /\ UNCHANGED <<hijacker, reqConn, ret, errChan, uploaded>>
  /\ UNCHANGED <<linkVars, natVars, natThreadVars, agentVars, confVars, orderVars, lastAccept,
                 fatal>>

\* the goroutine calls lc.Close() and returns
GoClose(s) ==
  /\ gor[s].pc = "close"
  /\ lc' = [lc EXCEPT ![s].closed = TRUE, ![s].hclose = TRUE]
  /\ gor' = [gor EXCEPT ![s].pc = "done"]
  /\ UNCHANGED <<hijacker, reqConn, ret, errChan, uploaded>>
  /\ UNCHANGED <<linkVars, natVars, natThreadVars, agentVars, confVars, orderVars, lastAccept,
                 fatal>>

\* the caller of Hijack closes the connection it was given
CallerClose(s) ==
  /\ ret[s].returned
  /\ \/ /\ ret[s].conn = "lc"
        /\ ~lc[s].closed
        /\ lc' = [lc EXCEPT ![s].closed = TRUE]
        /\ UNCHANGED reqConn
     \/ /\ ret[s].conn = "reqConn"
        /\ reqConn[s].state = "open"
        /\ reqConn' = [reqConn EXCEPT ![s].state = "closed"]
        /\ UNCHANGED lc
  /\ UNCHANGED <<hijacker, ret, errChan, gor, uploaded>>
  /\ UNCHANGED <<linkVars, natVars, natThreadVars, agentVars, confVars, orderVars, lastAccept,
                 fatal>>

GoStep == \E s \in Sessions : GoReceive(s) \/ GoFail(s) \/ GoClose(s)

NextHijack ==
  \/ \E s \in Sessions, fo \in BOOLEAN : NewHijacker(s, fo)
  \/ \E s \in Sessions, ok \in BOOLEAN : HijackConn(s, ok)
  \/ \E s \in Sessions, writeOK \in BOOLEAN : ConnectFails(s, writeOK)
  \/ \E s \in Sessions : ConnectOK(s)
  \/ \E s \in Sessions, e \in {"nil", "err"} : RecorderSends(s, e)
  \/ GoStep
  \/ \E s \in Sessions : CallerClose(s)

SpecHijack == Init /\ [][NextHijack]_vars

LiveHijack == SpecHijack /\ WF_vars(GoStep)

(***************************************************************************)
(* SpecTCP: guests sending TCP segments to the router, and the reader      *)
(* goroutine of the TCP stack.                                             *)
(***************************************************************************)
\* an address on the Internet that is neither a DERP nor a fake address
OtherWANIP == <<1, 2, 3, 4>>

TCPFrame(dstMAC, m, d) ==
  Frame(dstMAC, m, "IPv4", IPOfMAC(m), d.addr, "tcp", GuestPort, d.port,
        Payload("syn", <<>>))

\* segments to the router for every kind of destination, one to the
\* router's own address, and one sent to another guest's MAC
TCPProbeFrames ==
  {TCPFrame(GatewayOf(NodeMAC(2)), NodeMAC(2), d) :
     d \in {AddrPortFrom(OtherWANIP, 123), AddrPortFrom(fakeTestAgentIP, 123),
            AddrPortFrom(fakeControlplaneIP, 80), AddrPortFrom(<<9, 9, 9, 1>>, 443),
            AddrPortFrom(OtherWANIP, 80), AddrPortFrom(OtherWANIP, 443),
            AddrPortFrom(fakeControlplaneIP, 8008), AddrPortFrom(fakeTestAgentIP, 8008),
            AddrPortFrom(fakeTestAgentIP, 22), AddrPortFrom(NetLANIP(1), 123)}}
    \cup {TCPFrame(NodeMAC(1), NodeMAC(2), AddrPortFrom(OtherWANIP, 123))}

NextTCP ==
  \/ \E c \in Conns : Connect(c)
  \/ \E c \in Conns, ep \in TCPProbeFrames : ReadFrame(c, ep)
  \/ \E n \in Nets : StackRead(n)

SpecTCP == Init /\ [][NextTCP]_vars

(***************************************************************************)
(* SpecNAT: goroutines (transport readers, test code) calling doNATOut,    *)
(* doNATIn and InitNAT on the first network, one step per operation on     *)
(* natMu, while the clock advances.                                        *)
(***************************************************************************)
\* the network the goroutines of SpecNAT work on
NATNet == 1

\* the LAN endpoint whose packets are translated
LanSrc == AddrPortFrom(NodeLANIP(1), GuestPort)

\* a second peer on the WAN
PeerAddr == AddrPortFrom(NetWANIP(2), PortBase)

\* the flow whose successive doNATOut calls lastOut records
WatchedFlow == <<LanSrc, StunAddr>>

\* a goroutine enters doNATOut(src, dst): it goes for natMu
CallNATOut(t, dst) ==
  /\ ~fatal
  /\ thr[t].pc = "idle"
  /\ thr' = [thr EXCEPT ![t] = [IdleThread EXCEPT !.pc = "lock", !.op = "out",
                                                  !.src = LanSrc, !.dst = dst]]
  /\ UNCHANGED <<linkVars, natVars, natMu, natEpoch, lastOut, agentVars, fatal>>
  /\ UNCHANGED <<confVars, orderVars, hijVars, lastAccept>>

\* a goroutine enters doNATIn(src, dst)
CallNATIn(t, src, port) ==
  /\ ~fatal
  /\ thr[t].pc = "idle"
  /\ thr' = [thr EXCEPT ![t] = [IdleThread EXCEPT !.pc = "lock", !.op = "in", !.src = src,
                                  !.dst = AddrPortFrom(NetWANIP(NATNet), port)]]
  /\ UNCHANGED <<linkVars, natVars, natMu, natEpoch, lastOut, agentVars, fatal>>
  /\ UNCHANGED <<confVars, orderVars, hijVars, lastAccept>>

\* InitNAT(natType): an unknown type returns an error; else the constructor
\* runs and setNATTable goes for natMu
CallInitNAT(t, natType) ==
  /\ ~fatal
  /\ thr[t].pc = "idle"
  /\ natEpoch[NATNet] + Cardinality({u \in Threads : thr[u].op = "set"}) < MaxEpoch
  /\ thr' = IF natType \in natTypes
            THEN [thr EXCEPT ![t] = [IdleThread EXCEPT !.pc = "lock", !.op = "set",
                                                       !.typ = natType]]
            ELSE thr
  /\ UNCHANGED <<linkVars, natVars, natMu, natEpoch, lastOut, agentVars, fatal>>
  /\ UNCHANGED <<confVars, orderVars, hijVars, lastAccept>>

NoMutex(n) == TRUE

\* natMu.Lock can return: nobody holds the mutex
MutexFree(n) == natMu[n] = Nil

\* natMu.Lock returns; a translation then reads n.natTable
NATLock(t) ==
  /\ ~fatal
  /\ thr[t].pc = "lock"
  /\ MutexFree(NATNet)
  /\ natMu' = [natMu EXCEPT ![NATNet] = t]
  /\ thr' = [thr EXCEPT ![t].pc = "locked", ![t].tbl = natEpoch[NATNet]]
  /\ UNCHANGED <<linkVars, natVars, natEpoch, lastOut, agentVars, fatal>>
  /\ UNCHANGED <<confVars, orderVars, hijVars, lastAccept>>

\* lastOut after a doNATOut call for the watched flow returned res
RecordOut(res) ==
  [res |-> res, at |-> now, epoch |-> natEpoch[NATNet],
   prev |-> /\ lastOut.epoch = natEpoch[NATNet]
            /\ now - lastOut.at <= IdleWindow,
   pres |-> IF lastOut.epoch = natEpoch[NATNet] /\ now - lastOut.at <= IdleWindow
            THEN lastOut.res ELSE NoAddrPort]

\* inside the critical section: the table's method runs, or the table is
\* replaced
NATApply(t) ==
  /\ ~fatal
  /\ thr[t].pc = "locked"
  /\ thr' = [thr EXCEPT ![t].pc = "unlock"]
  /\ CASE thr[t].op = "out" ->
            \E o \in doNATOut(NATNet, natTable, thr[t].src, thr[t].dst) :
              /\ natTable' = o.nat
              /\ lastOut' = IF <<thr[t].src, thr[t].dst>> = WatchedFlow
                            THEN RecordOut(o.res) ELSE lastOut
              /\ UNCHANGED natEpoch
       [] thr[t].op = "in" ->
            /\ natTable' = doNATIn(NATNet, natTable, thr[t].src, thr[t].dst).nat
            /\ UNCHANGED <<natEpoch, lastOut>>
       [] OTHER ->
            /\ natTable' = [natTable EXCEPT ![NATNet] = newNATTable(thr[t].typ)]
            /\ natEpoch' = [natEpoch EXCEPT ![NATNet] = @ + 1]
            /\ UNCHANGED lastOut
  /\ UNCHANGED <<linkVars, natStyle, now, natMu, agentVars, fatal>>
  /\ UNCHANGED <<confVars, orderVars, hijVars, lastAccept>>

\* the deferred natMu.Unlock; InitNAT still has to store the style label
NATUnlock(t) ==
  /\ ~fatal
  /\ thr[t].pc = "unlock"
  /\ natMu' = [natMu EXCEPT ![NATNet] = Nil]
  /\ thr' = [thr EXCEPT ![t] = IF thr[t].op = "set"
                               THEN [thr[t] EXCEPT !.pc = "style"] ELSE IdleThread]
  /\ UNCHANGED <<linkVars, natVars, natEpoch, lastOut, agentVars, fatal>>
  /\ UNCHANGED <<confVars, orderVars, hijVars, lastAccept>>

\* InitNAT: n.natStyle.Store(natType)
StoreStyle(t) ==
  /\ ~fatal
  /\ thr[t].pc = "style"
  /\ natStyle' = [natStyle EXCEPT ![NATNet] = thr[t].typ]
  /\ thr' = [thr EXCEPT ![t] = IdleThread]
  /\ UNCHANGED <<linkVars, natTable, now, natMu, natEpoch, lastOut, agentVars, fatal>>
  /\ UNCHANGED <<confVars, orderVars, hijVars, lastAccept>>

\* the clock advances
Tick ==
  /\ ~fatal
  /\ now < MaxTime
  /\ now' = now + 1
  /\ UNCHANGED <<linkVars, natTable, natStyle, natThreadVars, agentVars, fatal>>
  /\ UNCHANGED <<confVars, orderVars, hijVars, lastAccept>>

NextNAT ==
  \/ \E t \in Threads, dst \in {StunAddr, PeerAddr} : CallNATOut(t, dst)
  \/ \E t \in Threads, src \in {StunAddr, PeerAddr}, port \in Pool : CallNATIn(t, src, port)
  \/ \E t \in Threads, natType \in natTypes \cup {"bogus"} : CallInitNAT(t, natType)
  \/ \E t \in Threads : NATLock(t)
  \/ \E t \in Threads : NATApply(t)
  \/ \E t \in Threads : NATUnlock(t)
  \/ \E t \in Threads : StoreStyle(t)
  \/ Tick

SpecNAT == Init /\ [][NextNAT]_vars

(***************************************************************************)
(* SpecInitNAT: goroutines calling InitNAT on one network, with no         *)
(* translation going on.                                                   *)
(***************************************************************************)
\* InitNAT(natType), while fewer than MaxInits replacements have been made
\* or are on their way
ConcurrentInitNAT(t, natType) ==
  /\ ~fatal
  /\ thr[t].pc = "idle"
  /\ natEpoch[NATNet] + Cardinality({u \in Threads : thr[u].op = "set"}) <= MaxInits
  /\ thr' = IF natType \in natTypes
            THEN [thr EXCEPT ![t] = [IdleThread EXCEPT !.pc = "lock", !.op = "set",
                                                       !.typ = natType]]
            ELSE thr
  /\ UNCHANGED <<linkVars, natVars, natMu, natEpoch, lastOut, agentVars, fatal>>
  /\ UNCHANGED <<confVars, orderVars, hijVars, lastAccept>>

NextInitNAT ==
  \/ \E t \in Threads, natType \in natTypes \cup {"bogus"} : ConcurrentInitNAT(t, natType)
  \/ \E t \in Threads : NATLock(t)
  \/ \E t \in Threads : NATApply(t)
  \/ \E t \in Threads : NATUnlock(t)
  \/ \E t \in Threads : StoreStyle(t)

SpecInitNAT == Init /\ [][NextInitNAT]_vars

(***************************************************************************)
(* SpecAgent: the agent registry.  The TCP terminator accepts connections  *)
(* of in-guest agents while callers dial through NodeAgentRoundTripper;    *)
(* one step per acquisition of Server.mu and per outcome of the select.    *)
(***************************************************************************)
\* the network whose guests run agents
AgentNet == 1

\* the source IPs agent connections come from
AgentIPs == {NodeLANIP(1), NodeLANIP(2), UnknownIP}

\* the nodes callers ask for
AgentNodes == {i \in Nodes : NodeNet(i) = AgentNet}

\* ctx.Err()
CtxErr(c) == IF call[c].cancelled THEN "context canceled" ELSE "nil"

\* the caller is blocked in the select of takeAgentConn
Parked(c) == call[c].pc = "select"

\* Server.addIdleAgentConn for a connection whose node acceptTCP looked up
\* by source IP: ac.node.mac is read first, which panics when the lookup
\* found no node; else the connection is added and the node's waiter woken
addIdleAgentConn(node) ==
  LET w == IF node = Nil THEN Nil ELSE agentConnWaiter[node]
  IN  IF node = Nil
      THEN /\ fatal' = TRUE
           /\ UNCHANGED agentVars
      ELSE /\ added' = Append(added, node)
           /\ agentConns' = agentConns \cup {[id |-> Len(added) + 1, node |-> node]}
           /\ call' = IF w # Nil /\ Parked(w)
                      THEN [call EXCEPT ![w].pc = "scan"] ELSE call
           /\ UNCHANGED <<agentConnWaiter, fatal>>

\* acceptTCP for port 8008 of fakeTestAgentIP: the node is looked up by the
\* source IP and the connection goes to addIdleAgentConn, which logs the
\* node's MAC, enqueues the connection and signals the node's waiter
\* without blocking.  A nil node kills the process at ac.node.mac.
AcceptAgentTCP(ip) ==
  /\ ~fatal
  /\ Len(added) < MaxAgentConns
  /\ addIdleAgentConn(nodesByIP(AgentNet, ip))
  /\ UNCHANGED <<linkVars, natVars, natThreadVars>>
  /\ UNCHANGED <<confVars, orderVars, hijVars, lastAccept>>

\* the DialContext of NodeAgentRoundTripper calls takeAgentConn(ctx, n)
StartCall(c, n) ==
  /\ ~fatal
  /\ call[c].pc = "none"
  /\ call' = [call EXCEPT ![c] = [NoCall EXCEPT !.pc = "scan", !.node = n]]
  /\ UNCHANGED <<linkVars, natVars, natThreadVars, agentConns, agentConnWaiter, added, fatal>>
  /\ UNCHANGED <<confVars, orderVars, hijVars, lastAccept>>

\* the caller's context is cancelled
Cancel(c) ==
  /\ ~fatal
  /\ call[c].pc \notin {"none", "done"}
  /\ ~call[c].cancelled
  /\ call' = [call EXCEPT ![c].cancelled = TRUE]
  /\ UNCHANGED <<linkVars, natVars, natThreadVars, agentConns, agentConnWaiter, added, fatal>>
  /\ UNCHANGED <<confVars, orderVars, hijVars, lastAccept>>

takeAgentConnOneNoDelete(conns, n) ==
  IF \E ac \in conns : ac.node = n
  THEN {[conns |-> conns, res |-> ac] : ac \in {a \in conns : a.node = n}}
  ELSE {[conns |-> conns, res |-> NoConn]}

\* Server.takeAgentConnOne: some queued connection of node n is deleted
\* from the set and returned
takeAgentConnOne(conns, n) ==
  IF \E ac \in conns : ac.node = n
  THEN {[conns |-> conns \ {ac}, res |-> ac] : ac \in {a \in conns : a.node = n}}
  ELSE {[conns |-> conns, res |-> NoConn]}

\* takeAgentConn: the call of takeAgentConnOne at the top of the loop; the
\* dial returns the connection when there is one
Scan(c) ==
  /\ ~fatal
  /\ call[c].pc = "scan"
  /\ \E o \in takeAgentConnOne(agentConns, call[c].node) :
       /\ agentConns' = o.conns
       /\ call' = IF o.res # NoConn
                  THEN [call EXCEPT ![c].pc = "done", ![c].res = o.res, ![c].err = "nil"]
                  ELSE [call EXCEPT ![c].pc = "install"]
  /\ UNCHANGED <<linkVars, natVars, natThreadVars, agentConnWaiter, added, fatal>>
  /\ UNCHANGED <<confVars, orderVars, hijVars, lastAccept>>

\* takeAgentConn: a new channel becomes the node's waiter
Install(c) ==
  /\ ~fatal
  /\ call[c].pc = "install"
  /\ agentConnWaiter' = [agentConnWaiter EXCEPT ![call[c].node] = c]
  /\ call' = [call EXCEPT ![c].pc = "enter"]
  /\ UNCHANGED <<linkVars, natVars, natThreadVars, agentConns, added, fatal>>
  /\ UNCHANGED <<confVars, orderVars, hijVars, lastAccept>>

CtxDoneNever(c) == FALSE

\* case <-ctx.Done()
CtxDone(c) == call[c].cancelled

NoRetryTimer(c) == FALSE

\* case <-time.After(time.Second): the timer fires before any cancellation
RetryTimer(c) == ~call[c].cancelled

\* takeAgentConn: the caller reaches the select and blocks when no case is
\* ready
EnterSelect(c) ==
  /\ ~fatal
  /\ call[c].pc = "enter"
  /\ call' = [call EXCEPT ![c].pc = "select"]
  /\ UNCHANGED <<linkVars, natVars, natThreadVars, agentConns, agentConnWaiter, added, fatal>>
  /\ UNCHANGED <<confVars, orderVars, hijVars, lastAccept>>

\* the select takes ctx.Done: takeAgentConn returns (nil, false) and the
\* dial returns ctx.Err()
SelectCtxDone(c) ==
  /\ ~fatal
  /\ Parked(c)
  /\ CtxDone(c)
  /\ call' = [call EXCEPT ![c].pc = "done", ![c].res = NoConn, ![c].err = CtxErr(c)]
  /\ UNCHANGED <<linkVars, natVars, natThreadVars, agentConns, agentConnWaiter, added, fatal>>
  /\ UNCHANGED <<confVars, orderVars, hijVars, lastAccept>>

\* the select takes the timer: the loop scans again
SelectTimer(c) ==
  /\ ~fatal
  /\ Parked(c)
  /\ RetryTimer(c)
  /\ call' = [call EXCEPT ![c].pc = "scan"]
  /\ UNCHANGED <<linkVars, natVars, natThreadVars, agentConns, agentConnWaiter, added, fatal>>
  /\ UNCHANGED <<confVars, orderVars, hijVars, lastAccept>>

\* the steps of caller c's goroutine
CallerStep(c) ==
  \/ Scan(c)
  \/ Install(c)
  \/ EnterSelect(c)
  \/ SelectCtxDone(c)
  \/ SelectTimer(c)

NextAgent ==
  \/ \E ip \in AgentIPs : AcceptAgentTCP(ip)
  \/ \E c \in Callers, n \in AgentNodes : StartCall(c, n)
  \/ \E c \in Callers : Cancel(c)
  \/ \E c \in Callers : CallerStep(c)

SpecAgent == Init /\ [][NextAgent]_vars

\* every caller's goroutine keeps running
LiveAgent == SpecAgent /\ \A c \in Callers : WF_vars(CallerStep(c))

(***************************************************************************)
(* SpecWAN: guests sending UDP through their routers to the WAN switch,    *)
(* and NAT-PMP requests.                                                   *)
(***************************************************************************)
\* the last address of the LAN prefix of network n (the prefix lengths of
\* ConfNetworks are whole octets)
LANBroadcastIP(n) ==
  [k \in 1..4 |-> IF k <= ConfNetworks[n].bits \div 8 THEN NetLANIP(n)[k] ELSE 255]

\* datagrams to an address that is no network's WAN IP, to the sender's own
\* WAN IP, one whose IP source is no node's address, and datagrams sent to
\* the router's MAC for a peer on the LAN and for the LAN's broadcast address
WANProbeFrames ==
  {WANFrame(NodeMAC(1), AddrPortFrom(OtherWANIP, 9000)),
   WANFrame(NodeMAC(1), AddrPortFrom(NetWANIP(1), PortBase)),
   [WANFrame(NodeMAC(1), AddrPortFrom(NetWANIP(2), PortBase)) EXCEPT !.ipsrc = UnknownIP],
   WANFrame(NodeMAC(1), AddrPortFrom(NodeLANIP(2), GuestPort)),
   WANFrame(NodeMAC(1), AddrPortFrom(LANBroadcastIP(1), GuestPort))}

NATPMPFrame(m, ipdst, d) ==
  Frame(GatewayOf(m), m, "IPv4", IPOfMAC(m), ipdst, "udp", GuestPort, 5351,
        Payload("raw", d))

\* port 5351 datagrams to the router's address with a version 0 and a
\* version 2 payload, to 0.0.0.0, to an address on the Internet and to the
\* other network's WAN IP
NATPMPProbeFrames ==
  {NATPMPFrame(NodeMAC(2), NetLANIP(1), d) : d \in {<<0, 0, 0>>, <<2, 0>>}}
    \cup {NATPMPFrame(NodeMAC(2), IPv4Unspecified, <<0, 0>>),
          NATPMPFrame(NodeMAC(2), OtherWANIP, <<0, 0>>),
          NATPMPFrame(NodeMAC(3), NetWANIP(1), <<0, 1>>)}

WANSideFrames == WANFrames \cup WANProbeFrames \cup NATPMPFrames \cup NATPMPProbeFrames

NextWAN ==
  \/ \E c \in Conns : Connect(c)
  \/ \E c \in Conns, ep \in WANSideFrames : ReadFrame(c, ep)

SpecWAN == Init /\ [][NextWAN]_vars

(***************************************************************************)
(* SpecAccept: the TCP forwarder calling network.acceptTCP, on the network *)
(* AgentNet, for connection attempts the stack has seen.                   *)
(***************************************************************************)
\* the attempts: the guest's address and the address it connects to
Requests ==
  {[src |-> a, dst |-> d] :
     a \in {NodeLANIP(1), UnknownIP},
     d \in {AddrPortFrom(fakeTestAgentIP, 8008), AddrPortFrom(fakeTestAgentIP, 123),
            AddrPortFrom(fakeControlplaneIP, 443), AddrPortFrom(<<9, 9, 9, 1>>, 80),
            AddrPortFrom(OtherWANIP, 80)}}

\* network.acceptTCP: how the attempt r is settled when CreateEndpoint
\* succeeds or not (epOK) and net.Dial succeeds or not (dialOK)
acceptTCP(r, epOK, dialOK) ==
  IF r.src = NoIP \/ ~epOK THEN "reset"
  ELSE IF r.dst.port = 123 THEN "greeting"
  ELSE IF r.dst.port = 8008 /\ r.dst.addr = fakeTestAgentIP THEN "agent"
  ELSE IF r.dst.addr \in derpIPs \/ r.dst.addr = fakeControlplaneIP
  THEN IF dialOK THEN "bridge" ELSE "reset"
  ELSE "reset"

\* the forwarder calls acceptTCP for the attempt r
AcceptTCP(r, epOK, dialOK) ==
  /\ ~fatal
  /\ lastAccept' = [called |-> TRUE, src |-> r.src, dst |-> r.dst, epOK |-> epOK,
                    dialOK |-> dialOK, outcome |-> acceptTCP(r, epOK, dialOK),
                    tick |-> ~lastAccept.tick]
  /\ IF acceptTCP(r, epOK, dialOK) = "agent"
     THEN /\ Len(added) < MaxAgentConns
          /\ addIdleAgentConn(nodesByIP(AgentNet, r.src))
     ELSE UNCHANGED <<agentVars, fatal>>
  /\ UNCHANGED <<linkVars, natVars, natThreadVars, confVars, orderVars, hijVars>>

NextAccept == \E r \in Requests, epOK \in BOOLEAN, dialOK \in BOOLEAN : AcceptTCP(r, epOK, dialOK)

SpecAccept == Init /\ [][NextAccept]_vars

(***************************************************************************)
(* SpecConf: New on every Config of Configs.                               *)
(***************************************************************************)
InitConf ==
  /\ fatal = FALSE
  /\ conn = [c \in Conns |-> [state |-> "closed", srcNode |-> Nil]]
  /\ writeFunc = [n \in Nets |-> <<>>]
  /\ natTable = [n \in Nets |-> newNATTable(ConfNetworks[n].natType)]
  /\ natStyle = [n \in Nets |-> ConfNetworks[n].natType]
  /\ now = 0
  /\ stackOut = [n \in Nets |-> <<>>]
  /\ registered = [c \in Conns |-> {}]
  /\ lastHandled = NoHandled
  /\ lastWrites = <<>>
  /\ lastWAN = <<>>
  /\ werr = {}
  /\ natMu = [n \in Nets |-> Nil]
  /\ natEpoch = [n \in Nets |-> 1]
  /\ thr = [t \in Threads |-> IdleThread]
  /\ lastOut = NoOut
  /\ agentConns = {}
  /\ agentConnWaiter = [i \in Nodes |-> Nil]
  /\ call = [c \in Callers |-> NoCall]
  /\ added = <<>>
  /\ conf \in Configs
  /\ srv = NoServer
  /\ hand = [c \in Conns |-> <<>>]
  /\ sent = [c \in Conns |-> 0]
  /\ rcvd = [c \in Conns |-> <<>>]
  /\ InitHijack

\* New(conf) is called
CallNew ==
  /\ srv = NoServer
  /\ srv' = New(conf)
  /\ fatal' = (New(conf).status = "panic")
  /\ UNCHANGED <<linkVars, natVars, natThreadVars, agentVars, orderVars, hijVars, lastAccept, conf>>

\* node j of the created server sends a DHCP message of type t; the router of
\* its network answers through the node's writer
ServeDHCP(j, t) ==
  /\ srv.status = "ok"
  /\ j \in 1..Len(srv.nodes)
  /\ lastHandled' = [NoHandled EXCEPT !.handled = TRUE, !.src = srv.nodes[j].mac,
                                      !.frame = DHCPFrame(srv.nodes[j].mac, t)]
  /\ lastWrites' = <<Write(Nil, srv.nodes[j].mac,
                           DHCPReply(srv.nodes[j].lanIP, srv.networks[srv.nodes[j].net].lan,
                                     NetMAC(srv.nodes[j].net),
                                     DHCPFrame(srv.nodes[j].mac, t)))>>
  /\ UNCHANGED <<conn, writeFunc, stackOut, registered, lastWAN, werr>>
  /\ UNCHANGED <<natVars, natThreadVars, agentVars, confVars, orderVars, hijVars, lastAccept,
                 fatal>>

NextConf ==
  \/ CallNew
  \/ \E j \in 1..(PadNodes + MaxConfNodes), t \in {DHCPDiscover, DHCPRequest} : ServeDHCP(j, t)

SpecConf == InitConf /\ [][NextConf]_vars

(***************************************************************************)
(* Properties of Spec.                                                     *)
(***************************************************************************)
\* the network transport c is attached to once it has locked onto a node
NetOfConn(c) == NodeNet(conn[c].srcNode)

\* how many of the last step's writer calls satisfy P
RECURSIVE CountWrites(_, _, _)
CountWrites(ws, mac, frame) ==
  IF ws = <<>> THEN 0
  ELSE (IF Head(ws).mac = mac /\ Head(ws).frame = frame THEN 1 ELSE 0)
       + CountWrites(Tail(ws), mac, frame)

\* C1: a transport that has locked onto the source MAC of its first frame
\* from a configured node passes a frame to HandleEthernetPacket only when
\* the frame's source is that MAC, drops every other frame, and has
\* registered a writer for that MAC alone; a transport that has not locked
\* has registered nothing, and a frame from an unknown MAC is never handled.
C1_LockedSourceMAC ==
  /\ \A c \in Conns :
       conn[c].state = "open" =>
         /\ registered[c] = IF conn[c].srcNode = Nil THEN {}
                            ELSE {NodeMAC(conn[c].srcNode)}
         /\ conn[c].srcNode \in Nodes \cup {Nil}
  /\ lastHandled.conn # Nil =>
       LET c == lastHandled.conn
       IN  /\ lastHandled.handled =>
                conn[c].srcNode # Nil /\ lastHandled.src = NodeMAC(conn[c].srcNode)
           /\ ~lastHandled.handled =>
                /\ lastWrites = <<>>
                /\ lastWAN = <<>>
                /\ \/ conn[c].srcNode = Nil /\ nodeByMAC(lastHandled.src) = Nil
                   \/ conn[c].srcNode # Nil /\ lastHandled.src # NodeMAC(conn[c].srcNode)

\* C1 witness: a locked transport has just read a frame whose source is the
\* MAC of another configured node, and dropped it
C1_Witness ==
  /\ lastHandled.conn # Nil
  /\ ~lastHandled.handled
  /\ conn[lastHandled.conn].srcNode # Nil
  /\ nodeByMAC(lastHandled.src) # Nil
  /\ lastHandled.src # NodeMAC(conn[lastHandled.conn].srcNode)

\* C2: no writer callback is ever called with a frame whose destination MAC
\* equals its source MAC.
C2_NoFrameToItself ==
  \A k \in DOMAIN lastWrites : lastWrites[k].frame.dst # lastWrites[k].frame.src

\* C2 witness: a connected node asked who has its own IP; the reply would go
\* from its MAC to its MAC and no writer was called
C2_Witness ==
  /\ lastHandled.handled
  /\ lastHandled.frame.etype = "ARP"
  /\ lastHandled.frame.proto = "request"
  /\ lastHandled.frame.ipdst = NodeLANIP(conn[lastHandled.conn].srcNode)
  /\ lastHandled.src \in DOMAIN writeFunc[NetOfConn(lastHandled.conn)]
  /\ lastWrites = <<>>

\* C3 as claimed: when a connected node sends an IPv4 frame to the broadcast
\* MAC, the writer of every other MAC registered on its network is called
\* exactly once with that frame and the sender's own writer is not called
\* with it.
C3_BroadcastNotToSender ==
  (lastHandled.handled /\ lastHandled.frame.etype = "IPv4"
     /\ IsBroadcast(lastHandled.frame.dst)) =>
    \A m \in DOMAIN writeFunc[NetOfConn(lastHandled.conn)] :
      CountWrites(lastWrites, m, lastHandled.frame)
        = IF m = lastHandled.src THEN 0 ELSE 1

\* the packet the last step routed to the WAN side of one of the networks
InboundPacket == lastWAN[1]

HasInbound ==
  /\ lastWAN # <<>>
  /\ InboundPacket.dst.port # stunPort
  /\ networkByWAN(InboundPacket.dst.addr) # Nil

\* the live mappings of the receiving network that own the packet's WAN port
InboundHits ==
  {m \in Live(natTable[networkByWAN(InboundPacket.dst.addr)], now) :
     m.port = InboundPacket.dst.port}

\* the frame HandleUDPPacket builds when it maps the packet to LAN address lan
InboundFrame(n, lan) ==
  Frame(NodeMAC(nodesByIP(n, lan.addr)), NetMAC(n), "IPv4", InboundPacket.src.addr,
        lan.addr, "udp", InboundPacket.src.port, lan.port, InboundPacket.payload)

\* C5: when a LAN endpoint holds WAN port P (it has sent out and the mapping
\* is live), an inbound packet to port P is, under Easy NAT, translated to
\* that LAN endpoint whatever its WAN source and written to the writer of the
\* endpoint's node (to nobody when that node is not connected), and under
\* Hard NAT, when its source is not the peer the mapping was made for,
\* dropped with no frame written.
C5_InboundFiltering ==
  (HasInbound /\ InboundHits # {}) =>
    LET n == networkByWAN(InboundPacket.dst.addr)
        m == CHOOSE m \in InboundHits : TRUE
        mac == NodeMAC(nodesByIP(n, m.src.addr))
    IN  /\ natTable[n].type = EasyNAT =>
             /\ nodesByIP(n, m.src.addr) # Nil
             /\ lastWrites = IF mac \in DOMAIN writeFunc[n]
                             THEN <<Write(writeFunc[n][mac], mac, InboundFrame(n, m.src))>>
                             ELSE <<>>
        /\ (natTable[n].type = HardNAT /\ m.dst # InboundPacket.src) => lastWrites = <<>>

\* C5 witness: an Easy network delivered, to the connected owner of port P, a
\* packet from a WAN source that owner never sent to
C5_Witness ==
  /\ HasInbound
  /\ InboundHits # {}
  /\ natTable[networkByWAN(InboundPacket.dst.addr)].type = EasyNAT
  /\ InboundPacket.src \notin {StunAddr, AddrPortFrom(NetWANIP(2), PortBase)}
  /\ lastWrites # <<>>

\* the Hard case of C5 is reached as well: the owner of port P is connected
\* and a packet to P from a source other than its peer wrote nothing
C5_WitnessHard ==
  /\ HasInbound
  /\ InboundHits # {}
  /\ natTable[networkByWAN(InboundPacket.dst.addr)].type = HardNAT
  /\ \E m \in InboundHits :
       /\ m.dst # InboundPacket.src
       /\ NodeMAC(nodesByIP(networkByWAN(InboundPacket.dst.addr), m.src.addr))
            \in DOMAIN writeFunc[networkByWAN(InboundPacket.dst.addr)]
  /\ lastWrites = <<>>

\* the last step was a failed read on transport c, which had locked onto a
\* node before
ReadFailed(c) == lastHandled'.err = c /\ conn[c].state = "open" /\ conn[c].srcNode # Nil

\* the registry entries of every MAC but the one transport c locked onto are
\* as they were
OthersKept(c) ==
  \A n \in Nets :
    \A m \in (DOMAIN writeFunc[n] \cup DOMAIN writeFunc'[n]) \ {NodeMAC(conn[c].srcNode)} :
      /\ m \in DOMAIN writeFunc[n] /\ m \in DOMAIN writeFunc'[n]
      /\ writeFunc'[n][m] = writeFunc[n][m]

\* the serving loop of transport c ends and the writer of its MAC is gone
LoopEnds(c) ==
  /\ conn'[c].state = "closed"
  /\ NodeMAC(conn[c].srcNode) \notin DOMAIN writeFunc'[NodeNet(conn[c].srcNode)]

\* C11 as claimed: on either framing, a failed read on a transport locked
\* onto MAC m ends its serving loop and removes the writer of m, and leaves
\* the writers of every other MAC as they were.
C11_ReadErrorDeregisters ==
  [][\A c \in Conns : ReadFailed(c) => LoopEnds(c) /\ OthersKept(c)]_vars

\* C11 amended: a failed read on a length-prefixed stream transport locked
\* onto MAC m ends its serving loop and removes the writer of m; a failed
\* read on a datagram transport leaves the loop running and the registry as
\* it is; in both cases the writers of every other MAC are as they were.
C11_StreamReadErrorDeregisters ==
  [][\A c \in Conns :
       ReadFailed(c) =>
         /\ OthersKept(c)
         /\ ProtoOf(c) = QEMU => LoopEnds(c)
         /\ ProtoOf(c) = UnixDGRAM => conn' = conn /\ writeFunc' = writeFunc]_vars

\* C11 witness: the read of a stream transport that had registered a writer
\* has failed, its loop has ended and its MAC has no writer, while the
\* writer of another MAC is still registered
C11_Witness ==
  /\ lastHandled.err # Nil
  /\ ProtoOf(lastHandled.err) = QEMU
  /\ conn[lastHandled.err].state = "closed"
  /\ \E m \in registered[lastHandled.err], n \in Nets :
       /\ nodeByMAC(m) # Nil /\ NodeNet(nodeByMAC(m)) = n
       /\ m \notin DOMAIN writeFunc[n]
       /\ DOMAIN writeFunc[n] # {}

\* the last step handled a frame that a guest sent through its router to
\* port 3478 of a WAN address with a STUN binding request in it
StunRequested ==
  /\ lastHandled.handled
  /\ lastHandled.frame.etype = "IPv4"
  /\ lastHandled.frame.dst = NetMAC(NetOfConn(lastHandled.conn))
  /\ lastHandled.frame.proto = "udp"
  /\ lastHandled.frame.dport = stunPort
  /\ lastHandled.frame.payload.kind = "stunReq"

DHCPRequested ==
  /\ lastHandled.handled
  /\ lastHandled.frame.etype = "IPv4"
  /\ isDHCPRequest(lastHandled.frame)
  /\ lastHandled.frame.payload.kind = "dhcp"
  /\ lastHandled.frame.payload.data[1] \in {DHCPDiscover, DHCPRequest}

\* the DHCP replies among the writer calls of the last step
DHCPReplies ==
  {k \in 1..Len(lastWrites) : lastWrites[k].frame.payload.kind = "dhcpReply"}

\* the subnet mask of the LAN prefix of network n
MaskOf(n) == IF ConfNetworks[n].bits = 24 THEN <<255, 255, 255, 0>> ELSE <<255, 255, 0, 0>>

\* C16: a DHCP Discover or Request from a node is answered once, with a
\* frame addressed to the requester's MAC whose YourClientIP is the node's
\* assigned LAN IP: an Offer for a Discover, and for a Request an Ack with
\* lease 3600, the router, DNS 4.11.4.11 and the subnet mask.
C16_DHCPReply ==
  (DHCPRequested /\ lastHandled.src \in DOMAIN writeFunc[NetOfConn(lastHandled.conn)]) =>
    LET f    == lastHandled.frame
        node == conn[lastHandled.conn].srcNode
        n    == NodeNet(node)
        d    == lastWrites[Len(lastWrites)].frame.payload.data
    IN  /\ Cardinality(DHCPReplies) = 1
        /\ DHCPReplies = {Len(lastWrites)}
        /\ lastWrites[Len(lastWrites)].mac = f.src
        /\ lastWrites[Len(lastWrites)].frame.dst = f.src
        /\ SubSeq(d, 2, 5) = NodeLANIP(node)
        /\ f.payload.data[1] = DHCPDiscover => d[1] = DHCPOffer /\ Len(d) = 9
        /\ f.payload.data[1] = DHCPRequest =>
             /\ d[1] = DHCPAck
             /\ SubSeq(d, 10, 10) = <<3600>>
             /\ SubSeq(d, 11, 14) = NetLANIP(n)
             /\ SubSeq(d, 15, 18) = <<4, 11, 4, 11>>
             /\ SubSeq(d, 19, 22) = MaskOf(n)
             /\ Len(d) = 22

\* C16 witness: the first node's Request was answered with an Ack
C16_Witness ==
  /\ DHCPRequested
  /\ lastHandled.frame.payload.data[1] = DHCPRequest
  /\ DHCPReplies # {}
  /\ lastWrites[Len(lastWrites)].frame.payload.data[1] = DHCPAck

\* a DHCP reply was written to the node with MAC 52:cc:cc:cc:cc:00 on a
\* network created with the default LAN prefix
DefaultDHCPReplied ==
  /\ srv.status = "ok"
  /\ lastHandled.handled
  /\ lastHandled.src = NodeMAC(1)
  /\ conf.networks[srv.nodes[1].net].lanIP = NoIP
  /\ lastWrites # <<>>

\* C17 as claimed: on the default prefix 192.168.0.0/24 the DHCP reply to
\* 52:cc:cc:cc:cc:00 has YourClientIP 192.168.0.101 and server ID
\* 192.168.0.1, an Ack has Router 192.168.0.1, and that router address is
\* no node's LAN IP.
C17_DefaultPrefixReply ==
  DefaultDHCPReplied =>
    LET d == lastWrites[1].frame.payload.data
    IN  /\ SubSeq(d, 2, 5) = <<192, 168, 0, 101>>
        /\ SubSeq(d, 6, 9) = <<192, 168, 0, 1>>
        /\ d[1] = DHCPAck => SubSeq(d, 11, 14) = <<192, 168, 0, 1>>
        /\ \A j \in 1..Len(srv.nodes) : srv.nodes[j].lanIP # <<192, 168, 0, 1>>

\* the last step handled an ARP frame that arrived on network n
ARPHandled(n) ==
  /\ lastHandled.handled
  /\ lastHandled.frame.etype = "ARP"
  /\ NetOfConn(lastHandled.conn) = n

\* the MACs of the devices of network n that have the IP address X
Owners(n, X) ==
  {NetMAC(m) : m \in {m \in Nets : m = n /\ NetLANIP(m) = X}}
    \cup {NodeMAC(j) : j \in {j \in Nodes : NodeNet(j) = n /\ NodeLANIP(j) = X}}

\* C18: an ARP request for the router's IP or a node's LAN IP on the network
\* produces one ARP reply, addressed to the requester, whose sender hardware
\* address is the MAC of the one owner of that IP; an unknown target or an
\* ARP frame that is no request produces no reply.  The reply is the only
\* writer call of the step; it is not written when the requester asked for
\* its own address (source and destination MAC are then equal) or has no
\* writer.
C18_ARPReply ==
  \A n \in Nets : ARPHandled(n) =>
    LET f     == lastHandled.frame
        reply == createARPResponse(n, f)
        own   == Owners(n, f.ipdst)
    IN  /\ (f.proto = "request" /\ own # {}) =>
             /\ reply # NoFrame
             /\ reply.etype = "ARP" /\ reply.proto = "reply"
             /\ reply.dst = f.src
             /\ own = {reply.payload.data}
             /\ reply.src = reply.payload.data
             /\ reply.ipsrc = f.ipdst
        /\ (f.proto # "request" \/ own = {}) => reply = NoFrame
        /\ lastWrites =
             IF reply # NoFrame /\ reply.src # f.src /\ f.src \in DOMAIN writeFunc[n]
             THEN <<Write(writeFunc[n][f.src], f.src, reply)>>
             ELSE <<>>

\* C18 witness: a node asked for the LAN IP of another node and the reply
\* carrying that node's MAC was written to it
C18_Witness ==
  /\ ARPHandled(1)
  /\ lastHandled.frame.ipdst = NodeLANIP(2)
  /\ lastHandled.frame.src = NodeMAC(1)
  /\ Len(lastWrites) = 1
  /\ lastWrites[1].frame.payload.data = NodeMAC(2)
  /\ lastWrites[1].mac = NodeMAC(1)

\* the last step handled a DNS query to 4.11.4.11:53
DNSQueried ==
  /\ lastHandled.handled
  /\ lastHandled.frame.etype = "IPv4"
  /\ lastHandled.frame.payload.kind = "dnsQuery"
  /\ lastHandled.frame.ipdst = <<4, 11, 4, 11>>
  /\ lastHandled.frame.dport = 53

\* the address the claim gives for a question name
ClaimedIP(name) ==
  IF name = DNSDns THEN <<4, 11, 4, 11>>
  ELSE IF name = DNSTestDriver THEN <<52, 52, 0, 2>>
  ELSE <<52, 52, 0, 1>>

\* the question is of class IN and type A and asks for one of the three names
ClaimedAnswered(q) ==
  q[2] = 1 /\ q[3] = 1 /\ q[1] \in {DNSDns, DNSTestDriver, DNSControlplane}

C19_WitnessNTP ==
  /\ DNSQueried
  /\ Len(lastHandled.frame.payload.data) = 7
  /\ lastHandled.frame.payload.data[5] = DNSPoolNTP
  /\ lastWrites = <<>>

\* the numbers of the frames of transport c that the writer of transport d
\* was called with, in call order
FromTo(c, d) == SelectSeq(rcvd[d], LAMBDA e : e[1] = c)

\* C20: while a writer call of frame k of a transport is outstanding, frame k
\* is the last frame read from that transport and no other frame of it is
\* being handled; and the frames of one transport that reach the same
\* destination writer reach it in the order they were read.
C20_InArrivalOrder ==
  \A c \in Conns :
    /\ Len(hand[c]) <= 1
    /\ hand[c] # <<>> => hand[c][1].seq = sent[c]
    /\ \A d \in Conns : \A i, j \in 1..Len(FromTo(c, d)) :
         i < j => FromTo(c, d)[i][2] <= FromTo(c, d)[j][2]

\* C20 witness: the writer of the second transport was called with frame 1
\* and then frame 2 of the first, and with a frame of its own in between or
\* around them
C20_Witness ==
  /\ Len(FromTo(1, 2)) >= 2
  /\ FromTo(1, 2)[1][2] = 1
  /\ FromTo(1, 2)[Len(FromTo(1, 2))][2] = 2
  /\ sent[2] > 0

\* the writer calls of ws that carry the frame f itself
Copies(ws, f) == {k \in 1..Len(ws) : ws[k].frame = f}

\* C23: an IPv4 frame that is handled goes through writeEth once, first:
\* a broadcast to every registered writer, a unicast to the writer of its
\* destination MAC if there is one and it is not the sender's; the router
\* acts on it (further writer calls, WAN packets, NAT or TCP stack changes)
\* only when the destination MAC is the router's or broadcast.  A frame of
\* another EtherType is never copied, and whatever is written for it goes to
\* its sender.
C23_LinkThenRouter ==
  [][lastHandled'.handled =>
       LET f  == lastHandled'.frame
           n  == NodeNet(conn'[lastHandled'.conn].srcNode)
           wf == writeFunc'[n]
           ws == lastWrites'
           cp == Copies(ws, f)
       IN  /\ f.etype = "IPv4" =>
                /\ cp = 1..Cardinality(cp)
                /\ IF IsBroadcast(f.dst)
                   THEN /\ {ws[k].mac : k \in cp} = DOMAIN wf
                        /\ Cardinality(cp) = Cardinality(DOMAIN wf)
                   ELSE IF f.dst \in DOMAIN wf /\ f.dst # f.src
                   THEN cp = {1} /\ ws[1].mac = f.dst
                   ELSE cp = {}
                /\ (f.dst # NetMAC(n) /\ ~IsBroadcast(f.dst)) =>
                     /\ Len(ws) = Cardinality(cp)
                     /\ lastWAN' = <<>>
                     /\ natTable' = natTable
                     /\ stackOut' = stackOut
           /\ f.etype # "IPv4" =>
                /\ cp = {}
                /\ \A k \in 1..Len(ws) : ws[k].mac = f.src
                /\ lastWAN' = <<>>
                /\ natTable' = natTable
                /\ stackOut' = stackOut]_vars

\* C23 witness: a broadcast IPv4 frame was copied to two writers and then
\* answered by the router
C23_Witness ==
  /\ lastHandled.handled
  /\ lastHandled.frame.etype = "IPv4"
  /\ IsBroadcast(lastHandled.frame.dst)
  /\ Cardinality(Copies(lastWrites, lastHandled.frame)) = 2
  /\ Len(lastWrites) = 3

\* C23 witness, unicast: a frame for another guest was copied to it and the
\* router did nothing
C23_WitnessUnicast ==
  /\ lastHandled.handled
  /\ lastHandled.frame = LANFrame(NodeMAC(1), 2)
  /\ Len(lastWrites) = 1
  /\ lastWAN = <<>>

\* C24: every writer call made for a frame with a non-broadcast destination
\* MAC goes to the writer registered for exactly that MAC, which is not the
\* frame's source MAC, and no such frame is written twice in a step; and a
\* step that handles a frame changes no registry entry other than the one
\* of the MAC the reading transport locks onto.
C24_UnicastOneWriter ==
  [][/\ \A k \in 1..Len(lastWrites') :
          ~IsBroadcast(lastWrites'[k].frame.dst) =>
            /\ lastWrites'[k].mac = lastWrites'[k].frame.dst
            /\ lastWrites'[k].frame.dst # lastWrites'[k].frame.src
            /\ \E m \in Nets :
                 /\ lastWrites'[k].mac \in DOMAIN writeFunc'[m]
                 /\ writeFunc'[m][lastWrites'[k].mac] = lastWrites'[k].conn
            /\ \A l \in 1..Len(lastWrites') :
                 lastWrites'[l].frame = lastWrites'[k].frame => l = k
     /\ lastHandled'.handled =>
          \A m \in Nets :
            /\ DOMAIN writeFunc'[m] \ {lastHandled'.src} = DOMAIN writeFunc[m] \ {lastHandled'.src}
            /\ \A a \in DOMAIN writeFunc[m] \ {lastHandled'.src} :
                 writeFunc'[m][a] = writeFunc[m][a]]_vars

\* C24 witness: a frame for a guest that has no writer was handled and
\* nothing was written
C24_Witness ==
  /\ lastHandled.handled
  /\ lastHandled.frame = LANFrame(NodeMAC(1), 2)
  /\ NodeMAC(2) \notin DOMAIN writeFunc[1]
  /\ lastWrites = <<>>

\* C24 witness, delivery: the same frame reached the one writer of its
\* destination while the sender's writer was registered too
C24_WitnessOne ==
  /\ lastHandled.handled
  /\ ~IsBroadcast(lastHandled.frame.dst)
  /\ Len(lastWrites) = 1
  /\ lastWrites[1].frame = lastHandled.frame
  /\ Cardinality(DOMAIN writeFunc[1]) = 2

\* the frame f, read on network n, is a UDP datagram for the router to
\* forward: not for the router's own address, and not DHCP, mDNS or a DNS
\* query to 4.11.4.11
ForwardedUDP(n, f) ==
  /\ f.etype = "IPv4"
  /\ f.proto = "udp"
  /\ f.dst = NetMAC(n) \/ IsBroadcast(f.dst)
  /\ f.ipdst # NetLANIP(n) /\ f.ipdst # IPv4Unspecified
  /\ ~(f.sport = 68 /\ f.dport = 67)
  /\ ~(f.sport = 5353 /\ f.dport = 5353)
  /\ ~(f.dport = 53 /\ f.ipdst = <<4, 11, 4, 11>> /\ f.payload.kind = "dnsQuery")

\* C25: for a UDP datagram the router forwards, one packet is handed to the
\* WAN switch, with the datagram's destination and payload and with the
\* source that one PickOutgoingSrc call on the network's table, for the
\* datagram's LAN source and destination, returned; the NAT tables after the
\* step are those that call and the routing of that packet leave.
C25_ForwardThroughNAT ==
  [][(lastHandled'.handled
        /\ ForwardedUDP(NodeNet(conn'[lastHandled'.conn].srcNode), lastHandled'.frame)) =>
       LET f   == lastHandled'.frame
           n   == NodeNet(conn'[lastHandled'.conn].srcNode)
           src == [addr |-> f.ipsrc, port |-> f.sport]
           dst == [addr |-> f.ipdst, port |-> f.dport]
       IN  /\ Len(lastWAN') = 1
           /\ lastWAN'[1].dst = dst
           /\ lastWAN'[1].payload = f.payload
           /\ \E o \in PickOutgoingSrc(n, natTable[n], src, dst, now) :
                /\ lastWAN'[1].src = o.res
                /\ natTable' = routeUDPPacket([natTable EXCEPT ![n] = o.tbl],
                                              writeFunc', lastWAN'[1]).nat]_vars

\* C25 witness: a datagram from a guest's LAN address left for the WAN with
\* a source on the network's WAN IP, through a table that already held a
\* mapping for another flow
C25_Witness ==
  /\ lastHandled.handled
  /\ ForwardedUDP(NetOfConn(lastHandled.conn), lastHandled.frame)
  /\ Len(lastWAN) = 1
  /\ lastWAN[1].src.addr = NetWANIP(NetOfConn(lastHandled.conn))
  /\ lastWAN[1].src.addr # lastHandled.frame.ipsrc
  /\ Cardinality(natTable[NetOfConn(lastHandled.conn)].out) >= 2

\* the connected transports that have locked onto the MAC m of network n
LockedOnto(n, m) ==
  {c \in Conns : /\ conn[c].state = "open"
                 /\ conn[c].srcNode # Nil
                 /\ NodeNet(conn[c].srcNode) = n
                 /\ NodeMAC(conn[c].srcNode) = m}

\* C31 as claimed: in every reachable state a network's link registry holds
\* a writer for the MAC m exactly when some connected transport has locked
\* onto m, and that writer is the writer of such a transport.
C31_RegistryTracksTransports ==
  \A n \in Nets : \A i \in Nodes :
    /\ NodeMAC(i) \in DOMAIN writeFunc[n] <=> LockedOnto(n, NodeMAC(i)) # {}
    /\ NodeMAC(i) \in DOMAIN writeFunc[n] =>
         writeFunc[n][NodeMAC(i)] \in LockedOnto(n, NodeMAC(i))

(***************************************************************************)
(* Properties of SpecTCP and SpecAccept.                                   *)
(***************************************************************************)
\* the TCP segment f is for a destination the router terminates
Terminated(f) ==
  \/ f.dport = 123
  \/ f.dport \in {80, 443} /\ (f.ipdst = <<52, 52, 0, 1>> \/ f.ipdst \in derpIPs)
  \/ f.dport = 8008 /\ f.ipdst = <<52, 52, 0, 2>>

\* C26: a TCP segment sent to the router's MAC for an address other than
\* the router's reaches the TCP stack exactly when its destination is port
\* 123, port 80 or 443 of 52.52.0.1 or of a DERP IP, or 52.52.0.2:8008 (the
\* stack then queues its answer, unless its queue is full); any other is
\* dropped.  Either way no NAT table changes, no packet goes to the WAN and
\* no writer is called in the step.
C26_TCPInterception ==
  [][LET f == lastHandled'.frame
         n == NodeNet(conn'[lastHandled'.conn].srcNode)
     IN  (/\ lastHandled'.handled
          /\ f.etype = "IPv4" /\ f.proto = "tcp"
          /\ f.dst = NetMAC(n)
          /\ f.ipdst # NetLANIP(n) /\ f.ipdst # IPv4Unspecified) =>
           /\ (Terminated(f) /\ Len(stackOut[n]) < MaxStackQueue) =>
                stackOut' = [stackOut EXCEPT ![n] =
                               Append(@, [src |-> [addr |-> f.ipdst, port |-> f.dport],
                                          dst |-> [addr |-> f.ipsrc, port |-> f.sport]])]
           /\ ~Terminated(f) => stackOut' = stackOut
           /\ natTable' = natTable
           /\ lastWAN' = <<>>
           /\ lastWrites' = <<>>]_vars

\* C26 witness: a segment for port 443 of a DERP IP was handled and the
\* stack's answer from that address is queued
C26_Witness ==
  /\ lastHandled.handled
  /\ lastHandled.frame.proto = "tcp"
  /\ lastHandled.frame.dport = 443
  /\ lastHandled.frame.ipdst \in derpIPs
  /\ stackOut[1] # <<>>
  /\ stackOut[1][Len(stackOut[1])].src.addr \in derpIPs

\* C26 witness, drop: a segment for port 80 of another address was handled
\* while the stack's queue was empty, and nothing was queued
C26_WitnessDrop ==
  /\ lastHandled.handled
  /\ lastHandled.frame.proto = "tcp"
  /\ lastHandled.frame.dport = 80
  /\ lastHandled.frame.ipdst = OtherWANIP
  /\ stackOut[1] = <<>>

\* how the claim settles an attempt whose endpoint was created
Claimed(r, dialOK) ==
  IF r.dst.port = 123 THEN "greeting"
  ELSE IF r.dst = [addr |-> <<52, 52, 0, 2>>, port |-> 8008] THEN "agent"
  ELSE IF r.dst.addr \in derpIPs \/ r.dst.addr = <<52, 52, 0, 1>>
  THEN IF dialOK THEN "bridge" ELSE "reset"
  ELSE "reset"

\* C27 as claimed: every connection attempt is settled in one way, in the
\* order greeting (port 123), agent connection (52.52.0.2:8008), bridge or
\* reset (DERP and control-plane addresses), reset; the agent case enqueues
\* one connection for the node whose LAN IP is the source IP, and no other
\* case enqueues anything.
C27_AcceptTCP ==
  [][(lastAccept'.tick # lastAccept.tick /\ lastAccept'.epOK) =>
       LET r == [src |-> lastAccept'.src, dst |-> lastAccept'.dst]
       IN  /\ ~fatal'
           /\ lastAccept'.outcome = Claimed(r, lastAccept'.dialOK)
           /\ IF lastAccept'.outcome = "agent"
              THEN /\ Len(added') = Len(added) + 1
                   /\ NodeLANIP(added'[Len(added')]) = r.src
                   /\ Cardinality(agentConns') = Cardinality(agentConns) + 1
              ELSE added' = added /\ agentConns' = agentConns]_vars

Receivers(ws) == {nodeByMAC(ws[k].mac) : k \in 1..Len(ws)}

\* C28: when a packet whose destination port is not 3478 is handed to the
\* WAN switch, writers are called on no network other than the one whose WAN
\* IP is the packet's destination address, and only that network's NAT table
\* is looked up for it; when no network has that WAN IP, no writer is called
\* and the NAT tables are as the outbound translation left them: every
\* table but the sender's is unchanged.
C28_RouteByWANIP ==
  [][(lastHandled'.handled /\ Len(lastWAN') = 1 /\ lastWAN'[1].dst.port # 3478) =>
       LET up  == lastWAN'[1]
           own == NodeNet(conn'[lastHandled'.conn].srcNode)
           tgt == {n \in Nets : NetWANIP(n) = up.dst.addr}
       IN  /\ Cardinality(tgt) <= 1
           /\ \A i \in Receivers(lastWrites') : NodeNet(i) \in tgt
           /\ \A n \in Nets \ {own} : natTable'[n] = natTable[n]
           /\ tgt = {} => lastWrites' = <<>>]_vars

\* C28 witness: a packet for an address that is no network's WAN IP was
\* handed to the WAN switch while the sender's peer on the LAN had a writer
C28_Witness ==
  /\ lastHandled.handled
  /\ Len(lastWAN) = 1
  /\ lastWAN[1].dst = [addr |-> OtherWANIP, port |-> 9000]
  /\ IsValid(lastWAN[1].src)
  /\ Cardinality(DOMAIN writeFunc[1]) = 2
  /\ lastWrites = <<>>

\* C28 witness, delivery: a packet from the second network for the first
\* network's WAN IP was written to a node of the first network
C28_WitnessDelivered ==
  /\ lastHandled.handled
  /\ Len(lastWAN) = 1
  /\ lastWAN[1].dst.addr = NetWANIP(1)
  /\ lastWAN[1].src.addr = NetWANIP(2)
  /\ Len(lastWrites) = 1
  /\ NodeNet(nodeByMAC(lastWrites[1].mac)) = 1

\* the packet that reaches HandleUDPPacket when up is handed to the WAN
\* switch: up itself, or the STUN reply to it
Inbound(up) ==
  IF up.dst.port = 3478
  THEN [src |-> up.dst, dst |-> up.src,
        payload |-> [kind |-> "stunResp",
                     data |-> up.payload.data \o up.src.addr \o <<up.src.port>>]]
  ELSE up

\* C29: when a packet with a source address reaches HandleUDPPacket of a
\* network, at most one writer is called.  None is called when
\* PickIncomingDst gives no valid address or the address it gives is no
\* node's LAN IP on the network.  Otherwise one frame goes to the link
\* registry, which calls the writer registered for the node's MAC: the frame
\* has the router's MAC as source, the node's MAC as destination, the
\* packet's WAN source as IP source and the translated address as IP
\* destination, and carries the packet's payload.
C29_InboundFrame ==
  [][(/\ lastHandled'.handled
      /\ Len(lastWAN') = 1
      /\ IsValid(lastWAN'[1].src)
      /\ lastWAN'[1].dst.port = 3478 => lastWAN'[1].payload.kind = "stunReq"
      /\ \E n \in Nets : NetWANIP(n) = Inbound(lastWAN'[1]).dst.addr) =>
       LET p    == Inbound(lastWAN'[1])
           n    == CHOOSE n \in Nets : NetWANIP(n) = p.dst.addr
           t    == PickIncomingDst(n, natTable'[n], p.src, p.dst, now).res
           node == {i \in Nodes : NodeNet(i) = n /\ NodeLANIP(i) = t.addr}
       IN  /\ Len(lastWrites') <= 1
           /\ (t.addr = NoIP \/ node = {}) => lastWrites' = <<>>
           /\ (t.addr # NoIP /\ node # {}) =>
                LET i == CHOOSE i \in node : TRUE
                IN  /\ NodeMAC(i) \notin DOMAIN writeFunc'[n] => lastWrites' = <<>>
                    /\ NodeMAC(i) \in DOMAIN writeFunc'[n] =>
                         /\ Len(lastWrites') = 1
                         /\ lastWrites'[1].conn = writeFunc'[n][NodeMAC(i)]
                         /\ lastWrites'[1].frame.src = NetMAC(n)
                         /\ lastWrites'[1].frame.dst = NodeMAC(i)
                         /\ lastWrites'[1].frame.ipsrc = p.src.addr
                         /\ lastWrites'[1].frame.sport = p.src.port
                         /\ lastWrites'[1].frame.ipdst = t.addr
                         /\ lastWrites'[1].frame.dport = t.port
                         /\ lastWrites'[1].frame.payload = p.payload]_vars

\* C29 witness: a packet from the second network was translated by the
\* first network's table and written to the first node
C29_Witness ==
  /\ lastHandled.handled
  /\ Len(lastWAN) = 1
  /\ lastWAN[1].src.addr = NetWANIP(2)
  /\ lastWAN[1].dst.addr = NetWANIP(1)
  /\ Len(lastWrites) = 1
  /\ lastWrites[1].frame.src = NetMAC(1)
  /\ lastWrites[1].frame.dst = NodeMAC(1)
  /\ lastWrites[1].frame.ipsrc = NetWANIP(2)
  /\ lastWrites[1].frame.ipdst = NodeLANIP(1)

\* C29 witness, no node: a packet from the second network matched a mapping
\* of the first network whose LAN address is no node's, while the first
\* node had a writer: nothing was written
C29_WitnessNoNode ==
  /\ lastHandled.handled
  /\ Len(lastWAN) = 1
  /\ lastWAN[1].src.addr = NetWANIP(2)
  /\ lastWAN[1].dst.addr = NetWANIP(1)
  /\ PickIncomingDst(1, natTable[1], lastWAN[1].src, lastWAN[1].dst, now).res.addr = UnknownIP
  /\ NodeMAC(1) \in DOMAIN writeFunc[1]
  /\ lastWrites = <<>>

\* the frame f is a UDP datagram for the router of network n, to port 5351,
\* whose payload starts with a 0 octet
NATPMPDatagram(n, f) ==
  /\ f.etype = "IPv4"
  /\ f.proto = "udp"
  /\ f.dst = NetMAC(n) \/ IsBroadcast(f.dst)
  /\ f.dport = 5351
  /\ Len(f.payload.data) > 0
  /\ f.payload.data[1] = 0

\* the writer calls ws are one NAT-PMP public address reply of network n to
\* the sender of the request f
NATPMPReply(n, f, ws) ==
  /\ Len(ws) = 1
  /\ ws[1].mac = f.src
  /\ ws[1].frame.dst = f.src
  /\ ws[1].frame.src = NetMAC(n)
  /\ ws[1].frame.ipsrc = f.ipdst /\ ws[1].frame.sport = f.dport
  /\ ws[1].frame.ipdst = f.ipsrc /\ ws[1].frame.dport = f.sport
  /\ Len(ws[1].frame.payload.data) = 12
  /\ SubSeq(ws[1].frame.payload.data, 1, 4) = <<0, 128, 0, 0>>
  /\ SubSeq(ws[1].frame.payload.data, 9, 12) = NetWANIP(n)

\* C30 as claimed: every UDP datagram for the router to port 5351 whose
\* payload starts with 0 is handled as NAT-PMP: no packet is handed to the
\* WAN switch and no NAT table changes; the payload 00 00 from a node with
\* a writer is answered with one 12-octet reply (version 0, opcode 128,
\* result 0, the WAN IP last) with source and destination swapped; any
\* other payload is answered with nothing.
C30_NATPMP ==
  [][(lastHandled'.handled
        /\ NATPMPDatagram(NodeNet(conn'[lastHandled'.conn].srcNode), lastHandled'.frame)) =>
       LET f == lastHandled'.frame
           n == NodeNet(conn'[lastHandled'.conn].srcNode)
       IN  /\ lastWAN' = <<>>
           /\ natTable' = natTable
           /\ IF f.payload.data = <<0, 0>>
              THEN NATPMPReply(n, f, lastWrites')
              ELSE lastWrites' = <<>>]_vars

\* the address ip lies within the LAN prefix of network n
InLANPrefix(n, ip) ==
  \A k \in 1..(ConfNetworks[n].bits \div 8) : ip[k] = NetLANIP(n)[k]

\* C34 as claimed: when the router handles a frame and a NAT table changes
\* or a packet is handed to the WAN switch, the frame carries a UDP datagram
\* whose destination IP lies outside the network's LAN prefix; a datagram
\* for a host or the broadcast address of the same LAN causes neither.
C34_ForwardOnlyOffLAN ==
  [][(lastHandled'.handled /\ (lastWAN' # <<>> \/ natTable' # natTable)) =>
       /\ lastHandled'.frame.proto = "udp"
       /\ ~InLANPrefix(NodeNet(conn'[lastHandled'.conn].srcNode),
                       lastHandled'.frame.ipdst)]_vars

(***************************************************************************)
(* Properties of SpecHijack and LiveHijack.                                *)
(***************************************************************************)
\* C21: when connecting to the recorders fails in setUpRecording, a Hijacker
\* with failOpen set returns the hijacked connection itself, with no error,
\* nothing written to it and still open; one with failOpen unset writes a
\* 403 response to the connection, closes it, and returns an error and no
\* connection.
C21_ConnectFailure ==
  [][\A s \in Sessions :
       (hijacker[s].pc = "setUp" /\ hijacker'[s].dial = "err") =>
         IF hijacker[s].failOpen
         THEN /\ ret'[s] = [conn |-> "reqConn", err |-> FALSE, returned |-> TRUE]
              /\ reqConn'[s] = [state |-> "open", status |-> 0, wrote |-> FALSE]
         ELSE /\ ret'[s] = [conn |-> "none", err |-> TRUE, returned |-> TRUE]
              /\ reqConn'[s].status = 403
              /\ reqConn'[s].state = "closed"]_vars

\* C21 witness: a fail-closed session whose recorder could not be reached and
\* whose warning could not be written has its connection closed
C21_Witness ==
  \E s \in Sessions :
    /\ hijacker[s].dial = "err"
    /\ ~hijacker[s].failOpen
    /\ reqConn[s].status = 403
    /\ ~reqConn[s].wrote
    /\ reqConn[s].state = "closed"
    /\ ret[s].err

\* C21 witness, fail open: the connection was returned and is open
C21_WitnessOpen ==
  \E s \in Sessions :
    /\ hijacker[s].dial = "err"
    /\ hijacker[s].failOpen
    /\ ret[s].conn = "reqConn"
    /\ reqConn[s].state = "open"

\* the sessions whose goroutine received nil
Finished == {s \in Sessions : gor[s].got = "nil"}

\* C22: after a non-nil error from the recorder's channel a fail-closed
\* session's recording connection is marked failed and then closed by the
\* goroutine, and a fail-open session's is neither; after nil the uploaded
\* counter has grown by exactly one for that session and the goroutine does
\* not close the connection.
C22_RecorderError ==
  /\ [](\A s \in Sessions :
          /\ lc[s].hclose => lc[s].failed
          /\ lc[s].failed => (gor[s].got = "err" /\ ~hijacker[s].failOpen)
          /\ gor[s].got = "nil" => (~lc[s].failed /\ ~lc[s].hclose))
  /\ [](uploaded = Cardinality(Finished))
  /\ \A s \in Sessions :
       (gor[s].got = "err" /\ ~hijacker[s].failOpen) ~> (lc[s].failed /\ lc[s].hclose)

\* C22 witness: one session was closed by its goroutine after an error while
\* another finished its upload
C22_Witness ==
  /\ \E s \in Sessions : lc[s].failed /\ lc[s].hclose
  /\ uploaded = 1

(***************************************************************************)
(* Properties of SpecWrite.                                                *)
(***************************************************************************)
\* C12 as claimed: once a write to a transport has failed, its reader
\* handles no further frame from it and no writer call is made for it.
C12_WriteErrorTerminates ==
  [][\A c \in werr :
       /\ ~(lastHandled'.handled /\ lastHandled'.conn = c)
       /\ \A k \in 1..Len(lastWrites') : lastWrites'[k].conn # c]_vars

(***************************************************************************)
(* Properties of SpecConf.                                                 *)
(***************************************************************************)
\* the configuration is one New has to reject
Rejectable(c) ==
  \/ \E i, k \in 1..Len(c.networks) : i # k /\ c.networks[i].wanIP = c.networks[k].wanIP
  \/ \E j, k \in 1..Len(confNodes(c)) : j # k /\ NodeMAC(j) = NodeMAC(k)
  \/ \E i \in 1..Len(c.networks) : natTypeOf(c.networks[i]) \notin natTypes
  \/ \E i \in 1..Len(c.networks) : c.networks[i].err
  \/ \E j \in 1..Len(confNodes(c)) : confNodes(c)[j].err

\* C13 as claimed: New returns an error and no server for a configuration
\* with two networks of one WAN IP, two nodes of one MAC, an unknown NAT
\* type or a carried option error; in a server New returns, the nodes' MACs
\* and the networks' WAN IPs are unique.
C13_ConfigErrorsRejected ==
  srv # NoServer =>
    /\ Rejectable(conf) => srv.status = "error"
    /\ srv.status = "ok" =>
         /\ \A j, k \in 1..Len(srv.nodes) : srv.nodes[j].mac = srv.nodes[k].mac => j = k
         /\ \A i, k \in 1..Len(srv.networks) :
              srv.networks[i].wanIP = srv.networks[k].wanIP => i = k

\* a 4-byte address is inside a prefix: netip.Prefix.Contains
PrefixContains(pfx, ip) ==
  \A o \in 1..4 :
    LET left == pfx.bits - 8 * (o - 1)
        k    == IF left < 0 THEN 0 ELSE IF left > 8 THEN 8 ELSE left
    IN  ip[o] \div (2 ^ (8 - k)) = pfx.addr[o] \div (2 ^ (8 - k))

\* C14 as claimed: on every configuration, New returns an error or yields
\* runtime nodes that each reference one network of the server and whose
\* LAN IP, the prefix address with last octet 101 + MAC low byte, is inside
\* that network's LAN prefix.
C14_NodesInsidePrefix ==
  srv # NoServer =>
    /\ srv.status \in {"error", "ok"}
    /\ \A j \in 1..Len(srv.nodes) :
         /\ srv.nodes[j].net \in 1..Len(srv.networks)
         /\ PrefixContains(srv.networks[srv.nodes[j].net].lan, srv.nodes[j].lanIP)

(***************************************************************************)
(* Properties of SpecNAT.                                                  *)
(***************************************************************************)
\* the goroutines inside the critical section of natMu
InNATMu == {t \in Threads : thr[t].pc \in {"locked", "unlock"}}

\* C4: a doNATOut call for a flow key returns the same WAN address and port
\* as the previous doNATOut call for that key when that call was made within
\* the idle window and the table has not been replaced since, whatever other
\* flows were translated in between.
C4_OutgoingIdempotent == lastOut.prev => lastOut.res = lastOut.pres

\* C4 witness: the watched flow was translated a second time within the idle
\* window, after the clock had advanced and while the table also holds a
\* mapping made for another peer
C4_Witness ==
  /\ lastOut.prev
  /\ lastOut.at > 0
  /\ IsValid(lastOut.res)
  /\ natTable[NATNet].type = HardNAT
  /\ \E m \in natTable[NATNet].out : m.dst = PeerAddr

\* C6: at most one of the doNATOut, doNATIn and setNATTable calls on a
\* network is inside the critical section of natMu, and the table a
\* translation works on is the one that was installed when it took the
\* mutex: no table is installed while a translation is in progress.
C6_TableSwapAtomic ==
  /\ Cardinality(InNATMu) <= 1
  /\ \A t \in Threads :
       (thr[t].pc = "locked" /\ thr[t].op \in {"out", "in"}) =>
         thr[t].tbl = natEpoch[NATNet]

\* C6 witness: a translation is inside the critical section while a
\* setNATTable call of another goroutine waits for the mutex
C6_Witness ==
  \E t, u \in Threads :
    /\ thr[t].pc = "locked" /\ thr[t].op = "out"
    /\ thr[u].pc = "lock" /\ thr[u].op = "set"

\* C33 as claimed: whenever no InitNAT call is in progress on the network,
\* its style label names the NAT type of the table that is installed.
C33_StyleNamesTable ==
  (\A t \in Threads : thr[t].op # "set") =>
    natStyle[NATNet] = natTable[NATNet].type

(***************************************************************************)
(* Properties of SpecAgent and LiveAgent.                                  *)
(***************************************************************************)
\* the agent connection accepted i-th
ConnOf(i) == [id |-> i, node |-> added[i]]

\* the calls that have returned connection ac
TakenBy(ac) == {c \in Callers : call[c].pc = "done" /\ call[c].res = ac}

\* a connection of node n is in the queue
Queued(n) == \E ac \in agentConns : ac.node = n

\* caller c is inside takeAgentConn
InCall(c) == call[c].pc \in {"scan", "install", "enter", "select"}

\* C7: every accepted agent connection is returned by at most one
\* takeAgentConn call and only by a call for its own node, and a connection
\* no call has returned is still in the queue; a call that returned without
\* a connection had its context cancelled.
C7_TakenAtMostOnce ==
  /\ \A i \in 1..Len(added) :
       /\ Cardinality(TakenBy(ConnOf(i))) <= 1
       /\ \A c \in TakenBy(ConnOf(i)) : call[c].node = added[i]
       /\ (TakenBy(ConnOf(i)) = {}) <=> (ConnOf(i) \in agentConns)
  /\ \A c \in Callers :
       (call[c].pc = "done" /\ call[c].res # NoConn) => call[c].res.id \in 1..Len(added)
  /\ \A c \in Callers :
       (call[c].pc = "done" /\ call[c].res = NoConn) => call[c].cancelled

\* C7 witness: one connection was accepted and two callers asked for its
\* node; one returned it and the other is blocked in the select
C7_Witness ==
  /\ Len(added) = 1
  /\ agentConns = {}
  /\ \E c, d \in Callers :
       /\ call[c].pc = "done" /\ call[c].res = ConnOf(1)
       /\ call[d].node = call[c].node /\ Parked(d) /\ ~call[d].cancelled

\* C8: a takeAgentConn call for node n that has not returned, with an
\* un-cancelled context, while a connection of n is queued, eventually
\* returns a connection, unless its context is cancelled, other callers take
\* the node's queued connections or the process dies.
C8_NoLostWakeup ==
  \A c \in Callers :
    (InCall(c) /\ ~call[c].cancelled /\ Queued(call[c].node))
      ~> \/ call[c].pc = "done" /\ call[c].res # NoConn
         \/ call[c].cancelled
         \/ InCall(c) /\ ~Queued(call[c].node)
         \/ fatal

\* C8 witness: the caller blocks in the select while a connection of its
\* node is queued and the node's waiter channel is another caller's: the
\* signal for that connection did not reach it
C8_Witness ==
  \E c \in Callers :
    /\ Parked(c) /\ ~call[c].cancelled
    /\ Queued(call[c].node)
    /\ agentConnWaiter[call[c].node] # c

\* a step in which caller c's takeAgentConn returns (nil, false)
ReturnsFailure(c) ==
  call[c].pc # "done" /\ call'[c].pc = "done" /\ call'[c].res = NoConn

\* C9: a takeAgentConn call returns (nil, false) only with a cancelled
\* context, that return leaves the queue as it is and the dial reports the
\* context's error; and a call whose context is cancelled while no
\* connection of its node is queued does return (nil, false), unless a
\* connection of its node is queued meanwhile or the process dies.
C9_CancelReturnsFailure ==
  /\ [][\A c \in Callers :
          ReturnsFailure(c) =>
            /\ call[c].cancelled
            /\ agentConns' = agentConns
            /\ call'[c].err = "context canceled"
            /\ ~fatal']_vars
  /\ \A c \in Callers :
       (InCall(c) /\ call[c].cancelled /\ ~Queued(call[c].node))
         ~> \/ call[c].pc = "done" /\ call[c].res = NoConn
            \/ Queued(call[c].node)
            \/ fatal

\* C9 witness: a call returned (nil, false) and its dial the context's error
\* while a connection of another node stayed queued
C9_Witness ==
  \E c \in Callers :
    /\ call[c].pc = "done" /\ call[c].res = NoConn
    /\ call[c].err = "context canceled"
    /\ agentConns # {}

\* C10 as claimed: no sequence of guest inputs brings the process to a
\* fatal state.
C10_NeverFatal == ~fatal

====
